---- MODULE Spec2Model ----
(***************************************************************************)
(* Static analysis scripts of the repository: the Spring project analyzer  *)
(* (dfd-analyzer/analyze_project.py), the event scanner, the publisher and *)
(* listener analyzers and the documentation pipeline (event-doc-generator).*)
(* One behaviour is one run of one command-line entry point.               *)
(***************************************************************************)
EXTENDS Integers, Sequences, FiniteSets, TLC

VARIABLES
    script,             \* the entry point that is running
    root_exists,        \* the source root given on the command line exists
    java_files,         \* list(rglob("*.java")): the files under the root
    pc,                 \* position of the run
    idx,                \* number of files the loop has processed
    exit_code,          \* process exit status; Running until the run ends
    output,             \* the documents written to stdout / the output files, in order
    external_entities,  \* JavaProjectAnalyzer.external_entities
    processes,          \* JavaProjectAnalyzer.processes
    data_stores,        \* JavaProjectAnalyzer.data_stores
    data_flows,         \* JavaProjectAnalyzer.data_flows
    publishers,         \* PublisherAnalyzer.publishers
    listeners,          \* ListenerAnalyzer.listeners
    events,             \* EventScanner.events
    stages,             \* the child processes EventDocPipeline.run has started
    diagram_script,     \* generate_diagrams.py exists beside the pipeline script
    clean,              \* args.clean of generate_all_docs.py
    temp_dir,           \* the temporary directory of the pipeline exists
    run_result,         \* the value EventDocPipeline.run has returned
    node_ids,           \* MermaidDFDGenerator.node_ids
    counter,            \* MermaidDFDGenerator.counter
    requested,          \* the stages argument of RequirementExecutor.run
    requirement_files,  \* workspace/requirement holds a file whose name has no leading dot
    executed,           \* the stages RequirementExecutor.run has entered, in order
    written,            \* the files the stages have written
    raised,             \* the stage whose exception reached the handler of run
    success             \* the value RequirementExecutor.run has returned

commonVars == <<script, root_exists, java_files, pc, idx, exit_code, output>>
dfdVars == <<external_entities, processes, data_stores, data_flows>>
pubVars == <<publishers>>
lisVars == <<listeners>>
scanVars == <<events>>
pipeVars == <<stages, diagram_script, clean, temp_dir, run_result>>
mermaidVars == <<node_ids, counter>>
execVars == <<requested, requirement_files, executed, written, raised, success>>
vars == <<commonVars, dfdVars, pubVars, lisVars, scanVars, pipeVars, mermaidVars, execVars>>

(***************************************************************************)
(* Bounds and values                                                       *)
(***************************************************************************)
MaxFiles == 2
MaxLines == 3
MaxParams == 2

None == "None"
Running == -1

\* The pipeline variables in a run of another entry point
PipelineIdle ==
    /\ stages = <<>>
    /\ diagram_script = TRUE
    /\ clean = FALSE
    /\ temp_dir = FALSE
    /\ run_result = Running

\* The diagram generator and the requirement executor in a run of another
\* entry point
MermaidIdle ==
    /\ node_ids = <<>>
    /\ counter = 0

ExecutorIdle ==
    /\ requested = <<>>
    /\ requirement_files = FALSE
    /\ executed = <<>>
    /\ written = {}
    /\ raised = None
    /\ success = Running

\* Sequences over S of length at most n.
SeqsUpTo(S, n) == UNION {[1..k -> S] : k \in 0..n}

(***************************************************************************)
(* analyze_project.py: a Java file, by the features the patterns look at   *)
(***************************************************************************)
PrimaryAnnotations == {"@RestController", "@Service", "@Repository", "@Entity", "@FeignClient"}
AlternateAnnotations == {"@Controller", "@Table", "@RestTemplate"}

\* A file: whether it can be read, the name after "public class|interface"
\* (None when the file has no such declaration), the marker annotations that
\* occur in its text, the types of its @Autowired private fields in order, and
\* the literal arguments @Table(name="..."), @FeignClient(name="...") and
\* @FeignClient(url="...") (None when absent). table_name_leads: the name
\* argument is the first argument of @Table and its value is a \w+ word.
DfdFile(r, c, a, d, t, fn, fu) ==
    [readable |-> r, class_name |-> c, annotations |-> a, autowired |-> d,
     table_name |-> t, table_name_leads |-> TRUE, feign_name |-> fn, feign_url |-> fu]

DfdCatalog ==
    {DfdFile(FALSE, "A", {"@Service"}, <<>>, None, None, None),
     DfdFile(TRUE, None, {"@Service"}, <<"B">>, None, None, None),
     DfdFile(TRUE, "B", {"@Service"}, <<"A", "B", "C", "A">>, None, None, None),
     DfdFile(TRUE, "B", {"@Entity", "@Table"}, <<>>, "orders", None, None),
     [DfdFile(TRUE, "B", {"@Entity", "@Table"}, <<>>, "orders", None, None)
        EXCEPT !.table_name_leads = FALSE],
     DfdFile(TRUE, "B", {"@FeignClient"}, <<>>, None, "A", "http://pay"),
     DfdFile(TRUE, "B", {"@FeignClient"}, <<>>, None, None, "http://pay")}
    \cup {DfdFile(TRUE, "A", a, <<"B">>, None, None, None) : a \in SUBSET PrimaryAnnotations}
    \cup {DfdFile(TRUE, "B", {a}, <<"A">>, None, None, None) :
            a \in AlternateAnnotations \cup {"@Service", "@Repository"}}

\* re.search(r'@X|@Y', content)
HasMarker(f, tokens) == f.annotations \cap tokens # {}

Classify_C2mut(f) ==
    IF HasMarker(f, {"@Service"}) THEN "service"
    ELSE IF HasMarker(f, {"@RestController", "@Controller"}) THEN "controller"
    ELSE IF HasMarker(f, {"@Repository"}) THEN "repository"
    ELSE IF HasMarker(f, {"@Entity", "@Table"}) THEN "entity"
    ELSE IF HasMarker(f, {"@FeignClient", "@RestTemplate"}) THEN "external_client"
    ELSE None

Classify_C3mut(f) ==
    IF HasMarker(f, {"@RestController", "@Controller"}) THEN "controller"
    ELSE IF HasMarker(f, {"@Service"}) THEN "service"
    ELSE IF HasMarker(f, {"@Repository"}) THEN "repository"
    ELSE IF HasMarker(f, {"@Entity", "@Table"}) THEN "entity"
    ELSE IF HasMarker(f, {"@FeignClient", "@RestTemplate"}) THEN "external_client"
    ELSE "service"

\* The if/elif chain of _analyze_file: the branch taken for a file.
Classify(f) ==
    IF HasMarker(f, {"@RestController", "@Controller"}) THEN "controller"
    ELSE IF HasMarker(f, {"@Service"}) THEN "service"
    ELSE IF HasMarker(f, {"@Repository"}) THEN "repository"
    ELSE IF HasMarker(f, {"@Entity", "@Table"}) THEN "entity"
    ELSE IF HasMarker(f, {"@FeignClient", "@RestTemplate"}) THEN "external_client"
    ELSE None

Process(c, t, d) == [name |-> c, class_name |-> c, type |-> t, dependencies |-> d]
ExternalEntity(n, t, c) == [name |-> n, type |-> t, references |-> <<c>>]
DataStore(n, c) == [name |-> n, type |-> "database", entity_class |-> c]
DataFlow(s, t, k) == [from_component |-> s, to_component |-> t,
                      data_type |-> "business_data", flow_type |-> k]

SeqRange(s) == {s[i] : i \in DOMAIN s}

\* f"API Client ({class_name})"
ApiClientName(c) ==
    CASE c = "A" -> "API Client (A)"
      [] c = "B" -> "API Client (B)"
      [] OTHER -> "API Client (?)"

\* str.lower() of a declaration name
Lower(c) ==
    CASE c = "A" -> "a"
      [] c = "B" -> "b"
      [] OTHER -> c

\* _analyze_controller: the client entity is added unless an external entity
\* is already named like the class.
ControllerEntities(f, ents) ==
    IF f.class_name \in {e.name : e \in SeqRange(ents)}
    THEN ents
    ELSE Append(ents, ExternalEntity(ApiClientName(f.class_name), "client", f.class_name))

\* _analyze_entity: the table name
\* @Table\(name\s*=\s*"(\w+)" matches only a name argument that directly
\* follows the opening parenthesis.
TableName(f) ==
    IF f.table_name # None /\ f.table_name_leads THEN f.table_name ELSE Lower(f.class_name)

\* _analyze_external_client: the entity name
ClientName(f) ==
    IF f.feign_name # None THEN f.feign_name
    ELSE IF f.feign_url # None THEN f.feign_url
    ELSE f.class_name

AnalyzeFileResult_C10mut(f, ents, procs, stores) ==
    IF f.class_name = None THEN <<ents, procs, stores>>
    ELSE LET kind == Classify(f) IN
         CASE kind = "controller" ->
                <<ControllerEntities(f, ents),
                  Append(procs, Process(f.class_name, "controller", f.autowired)), stores>>
           [] kind = "service" ->
                <<ents, Append(procs, Process(f.class_name, "service", f.autowired)), stores>>
           [] kind = "repository" ->
                <<ents, Append(procs, Process(f.class_name, "repository", <<>>)), stores>>
           [] kind = "entity" ->
                <<ents, procs, Append(stores, DataStore(TableName(f), f.class_name))>>
           [] kind = "external_client" ->
                <<Append(ents, ExternalEntity(ClientName(f), "external_service", f.class_name)),
                  procs, stores>>
           [] OTHER -> <<ents, procs, stores>>

\* _analyze_file applied to f: the collections afterwards.
AnalyzeFileResult(f, ents, procs, stores) ==
    IF ~f.readable THEN <<ents, procs, stores>>
    ELSE IF f.class_name = None THEN <<ents, procs, stores>>
    ELSE LET kind == Classify(f) IN
         CASE kind = "controller" ->
                <<ControllerEntities(f, ents),
                  Append(procs, Process(f.class_name, "controller", f.autowired)), stores>>
           [] kind = "service" ->
                <<ents, Append(procs, Process(f.class_name, "service", f.autowired)), stores>>
           [] kind = "repository" ->
                <<ents, Append(procs, Process(f.class_name, "repository", <<>>)), stores>>
           [] kind = "entity" ->
                <<ents, procs, Append(stores, DataStore(TableName(f), f.class_name))>>
           [] kind = "external_client" ->
                <<Append(ents, ExternalEntity(ClientName(f), "external_service", f.class_name)),
                  procs, stores>>
           [] OTHER -> <<ents, procs, stores>>

\* process_map = {p.class_name: p for p in self.processes}: the last process
\* of a name is the one the name maps to.
ProcessNames(procs) == {procs[i].class_name : i \in DOMAIN procs}
ProcessMap(procs) ==
    [n \in ProcessNames(procs) |->
        procs[CHOOSE i \in DOMAIN procs :
                /\ procs[i].class_name = n
                /\ \A j \in DOMAIN procs : procs[j].class_name = n => j <= i]]

FlowType_C1mut(ptype, ttype) ==
    IF ptype = "controller" /\ ttype = "service" THEN "request"
    ELSE IF ptype = "service" THEN "query"
    ELSE "request"

\* The flow type of an edge, from the types of its two ends.
FlowType(ptype, ttype) ==
    IF ptype = "controller" /\ ttype = "service" THEN "request"
    ELSE IF ptype = "service" /\ ttype = "repository" THEN "query"
    ELSE "request"

\* The (process, dependency) positions the two loops of _infer_data_flows
\* emit an edge for, in order: those whose dependency is in process_map.
DepEdges(procs, i) ==
    SelectSeq([j \in 1..Len(procs[i].dependencies) |-> <<i, j>>],
              LAMBDA e : procs[e[1]].dependencies[e[2]] \in ProcessNames(procs))

RECURSIVE EdgesUpTo(_, _)
EdgesUpTo(procs, n) ==
    IF n = 0 THEN <<>> ELSE EdgesUpTo(procs, n - 1) \o DepEdges(procs, n)

EdgeList(procs) == EdgesUpTo(procs, Len(procs))

InferDataFlows_C25mut(procs) ==
    LET edges == EdgeList(procs)
        pmap == ProcessMap(procs)
        first == SelectSeq([k \in 1..Len(edges) |-> k],
                     LAMBDA k : \A m \in 1..(k - 1) :
                        \/ procs[edges[m][1]].class_name # procs[edges[k][1]].class_name
                        \/ procs[edges[m][1]].dependencies[edges[m][2]]
                              # procs[edges[k][1]].dependencies[edges[k][2]])
    IN [n \in 1..Len(first) |->
          LET process == procs[edges[first[n]][1]]
              target == pmap[process.dependencies[edges[first[n]][2]]]
          IN DataFlow(process.class_name, target.class_name,
                      FlowType(process.type, target.type))]

InferDataFlows_C14mut(procs) ==
    LET RECURSIVE All(_)
        All(n) == IF n = 0 THEN <<>>
                  ELSE All(n - 1) \o [j \in 1..Len(procs[n].dependencies) |-> <<n, j>>]
        edges == All(Len(procs))
        pmap == ProcessMap(procs)
    IN [k \in 1..Len(edges) |->
          LET process == procs[edges[k][1]]
              dep == process.dependencies[edges[k][2]]
          IN DataFlow(process.class_name, dep,
                      IF dep \in DOMAIN pmap THEN FlowType(process.type, pmap[dep].type)
                      ELSE "request")]

\* _infer_data_flows: the flows appended.
InferDataFlows(procs) ==
    LET edges == EdgeList(procs)
        pmap == ProcessMap(procs)
    IN [k \in 1..Len(edges) |->
          LET process == procs[edges[k][1]]
              target == pmap[process.dependencies[edges[k][2]]]
          IN DataFlow(process.class_name, target.class_name,
                      FlowType(process.type, target.type))]

\* The loop of analyze() over the first n files, from empty collections:
\* <<external_entities, processes, data_stores>>.
RECURSIVE AnalyzeFiles(_, _)
AnalyzeFiles(files, n) ==
    IF n = 0 THEN <<<<>>, <<>>, <<>>>>
    ELSE LET r == AnalyzeFiles(files, n - 1)
         IN AnalyzeFileResult(files[n], r[1], r[2], r[3])

\* The dict analyze() returns
AnalyzeResult(ents, procs, stores, flows) ==
    [external_entities |-> ents, processes |-> procs,
     data_stores |-> stores, data_flows |-> flows]

\* A whole run of analyze() over files.
DfdRun(files) ==
    LET r == AnalyzeFiles(files, Len(files))
    IN AnalyzeResult(r[1], r[2], r[3], InferDataFlows(r[2]))

(***************************************************************************)
(* analyze_project.py: the run                                             *)
(***************************************************************************)
InitDFD ==
    /\ script = "analyze_project"
    /\ root_exists \in BOOLEAN
    /\ java_files \in (IF root_exists THEN SeqsUpTo(DfdCatalog, MaxFiles) ELSE {<<>>})
    /\ pc = "main"
    /\ idx = 0
    /\ exit_code = Running
    /\ output = <<>>
    /\ external_entities = <<>>
    /\ processes = <<>>
    /\ data_stores = <<>>
    /\ data_flows = <<>>
    /\ publishers = <<>>
    /\ listeners = <<>>
    /\ events = <<>>
    /\ PipelineIdle
    /\ MermaidIdle
    /\ ExecutorIdle

\* main(): the existence check, then the analyzer is built.
DfdMain ==
    /\ script = "analyze_project" /\ pc = "main"
    /\ IF root_exists
       THEN pc' = "loop" /\ exit_code' = exit_code
       ELSE pc' = "done" /\ exit_code' = 1
    /\ UNCHANGED <<script, root_exists, java_files, idx, output, dfdVars, pubVars, lisVars, scanVars, pipeVars, mermaidVars, execVars>>

\* One iteration of the loop of analyze(): _analyze_file(java_file).
DfdAnalyzeFile ==
    /\ script = "analyze_project" /\ pc = "loop" /\ idx < Len(java_files)
    /\ LET r == AnalyzeFileResult(java_files[idx + 1], external_entities, processes, data_stores)
       IN /\ external_entities' = r[1]
          /\ processes' = r[2]
          /\ data_stores' = r[3]
    /\ idx' = idx + 1
    /\ UNCHANGED <<script, root_exists, java_files, pc, exit_code, output, data_flows, pubVars, lisVars, scanVars, pipeVars, mermaidVars, execVars>>

\* The end of analyze() and of main(): _infer_data_flows, then the result is
\* printed as JSON.
DfdInferAndPrint ==
    /\ script = "analyze_project" /\ pc = "loop" /\ idx = Len(java_files)
    /\ data_flows' = data_flows \o InferDataFlows(processes)
    /\ output' = <<AnalyzeResult(external_entities, processes, data_stores, data_flows')>>
    /\ exit_code' = 0
    /\ pc' = "done"
    /\ UNCHANGED <<script, root_exists, java_files, idx, external_entities, processes, data_stores, pubVars, lisVars, scanVars, pipeVars, mermaidVars, execVars>>

NextDFD == DfdMain \/ DfdAnalyzeFile \/ DfdInferAndPrint

SpecDFD == InitDFD /\ [][NextDFD]_vars

(***************************************************************************)
(* analyze_project.py: properties                                          *)
(***************************************************************************)
\* The file the last iteration of the loop has analyzed.
LastFile == java_files[idx]
\* This step is _analyze_file on the next file.
FileStep == script = "analyze_project" /\ pc = "loop" /\ idx' = idx + 1
NextFile == java_files[idx + 1]

\* The flow kind the specification gives for a pair of kinds.
PairFlowKind(skind, tkind) ==
    CASE skind = "controller" /\ tkind = "service" -> "request"
      [] skind = "service" /\ tkind = "repository" -> "query"
      [] OTHER -> "request"

\* C1: every edge _infer_data_flows emits has the flow_type that the pair
\* (kind of the depending process, kind of the process its dependency names)
\* determines: controller->service request, service->repository query, any
\* other pair request.
C1_FlowTypeByKinds ==
    (script = "analyze_project" /\ pc = "done" /\ exit_code = 0) =>
        LET edges == EdgeList(processes)
            pmap == ProcessMap(processes)
        IN /\ Len(data_flows) = Len(edges)
           /\ \A k \in 1..Len(edges) :
                LET process == processes[edges[k][1]]
                    target == pmap[process.dependencies[edges[k][2]]]
                IN data_flows[k].flow_type = PairFlowKind(process.type, target.type)

\* C1 witness: a finished run that emitted a service->repository edge and an
\* edge of another pairing.
C1_Witness ==
    /\ script = "analyze_project" /\ pc = "done"
    /\ \E k \in DOMAIN data_flows : data_flows[k].flow_type = "query"
    /\ \E k \in DOMAIN data_flows : data_flows[k].flow_type = "request"

\* The kinds in priority order, and the markers of each.
KindPriority == <<"controller", "service", "repository", "entity", "external_client">>
KindMarkers ==
    [controller |-> {"@RestController", "@Controller"}, service |-> {"@Service"},
     repository |-> {"@Repository"}, entity |-> {"@Entity", "@Table"},
     external_client |-> {"@FeignClient", "@RestTemplate"}]
AllMarkers == UNION {KindMarkers[k] : k \in DOMAIN KindMarkers}

\* The highest-priority kind whose marker occurs in f; None without a marker.
TopKind(f) ==
    LET present == {i \in DOMAIN KindPriority : f.annotations \cap KindMarkers[KindPriority[i]] # {}}
    IN IF present = {} THEN None
       ELSE KindPriority[CHOOSE i \in present : \A j \in present : i <= j]

\* The number of records of a kind in the collections.
NumOfKind(ents, procs, stores, kind) ==
    CASE kind \in {"controller", "service", "repository"} ->
            Cardinality({i \in DOMAIN procs : procs[i].type = kind})
      [] kind = "entity" -> Len(stores)
      [] kind = "external_client" ->
            Cardinality({i \in DOMAIN ents : ents[i].type = "external_service"})

\* C2: _analyze_file on a readable file that declares a class records it
\* under the highest-priority marker present (controller > service >
\* repository > persisted entity > external client) and under no other kind.
C2_OneKindByPriority ==
    [][(FileStep /\ NextFile.readable /\ NextFile.class_name # None) =>
          \A i \in DOMAIN KindPriority :
             NumOfKind(external_entities', processes', data_stores', KindPriority[i])
               = NumOfKind(external_entities, processes, data_stores, KindPriority[i])
                 + (IF KindPriority[i] = TopKind(NextFile) THEN 1 ELSE 0)]_vars

\* C2 witness: a file carrying markers of several kinds has been analyzed and
\* recorded.
C2_Witness ==
    /\ script = "analyze_project" /\ pc = "loop" /\ idx > 0
    /\ LastFile.readable /\ LastFile.class_name # None
    /\ Cardinality({k \in DOMAIN KindMarkers : LastFile.annotations \cap KindMarkers[k] # {}}) >= 3
    /\ Len(processes) + Len(data_stores) + Len(external_entities) > 0

\* C3: _analyze_file on a file with none of the recognized markers leaves the
\* three collections as they were and the run goes on without an error.
C3_NoMarkerNoEntity ==
    [][(FileStep /\ NextFile.annotations \cap AllMarkers = {}) =>
          /\ external_entities' = external_entities
          /\ processes' = processes
          /\ data_stores' = data_stores
          /\ pc' = "loop" /\ exit_code' = Running]_vars

\* C3 witness: a readable file with a class declaration and no marker was
\* analyzed after a file that produced a record.
C3_Witness ==
    /\ script = "analyze_project" /\ pc = "loop" /\ idx = 2
    /\ LastFile.readable /\ LastFile.class_name # None
    /\ LastFile.annotations \cap AllMarkers = {}
    /\ Len(processes) + Len(data_stores) + Len(external_entities) > 0

\* analyze() has returned and main() has printed the result.
DfdFinished == script = "analyze_project" /\ pc = "done" /\ exit_code = 0

\* C23: a file recorded as a persisted entity adds one data store, named by
\* the name argument of @Table when the annotation has one and by the
\* lower-cased class name otherwise, of type database, owned by the class.
C23_StoreName ==
    [][(FileStep /\ NextFile.readable /\ NextFile.class_name # None
          /\ TopKind(NextFile) = "entity") =>
          data_stores' = Append(data_stores,
              [name |-> IF NextFile.table_name # None THEN NextFile.table_name
                        ELSE Lower(NextFile.class_name),
               type |-> "database", entity_class |-> NextFile.class_name])]_vars

\* C24: every controller process of a result has an external entity of type
\* client that refers to the controller's class.
C24_ControllerHasClient ==
    DfdFinished =>
        \A i \in DOMAIN output[1].processes :
            output[1].processes[i].type = "controller" =>
                \E k \in DOMAIN output[1].external_entities :
                    /\ output[1].external_entities[k].type = "client"
                    /\ output[1].processes[i].class_name
                          \in SeqRange(output[1].external_entities[k].references)

\* The number of times x occurs in seq.
Occurrences(seq, x) == Cardinality({i \in DOMAIN seq : seq[i] = x})

\* C25: for every two class names p and q of processes, the flows from p to
\* q are as many as the occurrences of q in the dependency lists of the
\* processes named p: a dependency declared twice gives two flows.
C25_NoDeduplication ==
    DfdFinished =>
        \A p, q \in ProcessNames(processes) :
            Cardinality({k \in DOMAIN data_flows :
                            /\ data_flows[k].from_component = p
                            /\ data_flows[k].to_component = q})
              = Cardinality({e \in UNION {{<<i, j>> : j \in DOMAIN processes[i].dependencies} :
                                            i \in DOMAIN processes} :
                                /\ processes[e[1]].class_name = p
                                /\ processes[e[1]].dependencies[e[2]] = q})

\* C25 witness: a finished run in which a process names the same known class
\* twice among its dependencies and two flows join the pair.
C25_Witness ==
    /\ DfdFinished
    /\ \E i \in DOMAIN processes : \E q \in ProcessNames(processes) :
          /\ Occurrences(processes[i].dependencies, q) = 2
          /\ Cardinality({k \in DOMAIN data_flows :
                            /\ data_flows[k].from_component = processes[i].class_name
                            /\ data_flows[k].to_component = q}) = 2

\* The orders rglob can hand the same files over in.
Orderings(files) ==
    {[i \in 1..Len(files) |-> files[q[i]]] :
        q \in {q \in [1..Len(files) -> 1..Len(files)] :
                  \A i, j \in 1..Len(files) : q[i] = q[j] => i = j}}

\* What a graph holds, apart from the order of its lists.
GraphContent(g) ==
    [external_entities |-> SeqRange(g.external_entities),
     processes |-> SeqRange(g.processes),
     data_stores |-> SeqRange(g.data_stores),
     data_flows |-> SeqRange(g.data_flows)]

\* C11: the graph a run of analyze() prints holds the same external entities,
\* processes, data stores and data flows (flow_type included) as the run over
\* any other order of the same files.
C11_OrderIndependent ==
    DfdFinished =>
        \A files \in Orderings(java_files) :
            GraphContent(DfdRun(files)) = GraphContent(output[1])

\* C13: after analyze() no two process records carry the same class name.
C13_UniqueProcessNames ==
    DfdFinished =>
        \A i, j \in DOMAIN output[1].processes :
            output[1].processes[i].class_name = output[1].processes[j].class_name => i = j

\* C14: both ends of every data flow of a result are class names of processes
\* of that result, and the flows are exactly one per dependency that names a
\* process: a dependency on an unknown type yields no edge.
C14_FlowEndsAreProcesses ==
    DfdFinished =>
        LET g == output[1]
            names == {g.processes[i].class_name : i \in DOMAIN g.processes}
            known == UNION {{<<i, j>> : j \in {j \in DOMAIN g.processes[i].dependencies :
                                                  g.processes[i].dependencies[j] \in names}} :
                            i \in DOMAIN g.processes}
        IN /\ \A k \in DOMAIN g.data_flows :
                /\ g.data_flows[k].from_component \in names
                /\ g.data_flows[k].to_component \in names
           /\ Len(g.data_flows) = Cardinality(known)

\* C14 witness: a finished run with a flow, one of whose processes also
\* depends on a type that no process of the result declares.
C14_Witness ==
    /\ DfdFinished
    /\ Len(output[1].data_flows) > 0
    /\ \E i \in DOMAIN processes : \E j \in DOMAIN processes[i].dependencies :
          processes[i].dependencies[j] \notin ProcessNames(processes)

(***************************************************************************)
(* analyze_publishers.py: source lines as token sequences                  *)
(***************************************************************************)
\* The line shapes of the model. Words are \w+ runs; whitespace between
\* tokens is not represented.
SigPlaceLine == <<"public", "void", "placeOrder", "(", "String", "id", ")", "{">>
SigCancelLine == <<"private", "void", "cancel", "(", ")", "{">>
PubDotLine == <<"eventPublisher", ".", "publishEvent", "(", "new", "OrderPlacedEvent", "(", "id", ")", ")", ";">>
PubBusLine == <<"bus", ".", "publish", "(", "new", "OrderPlacedEvent", "(", "id", ")", ")", ";">>
PubBareLine == <<"publishEvent", "(", "new", "OrderCancelledEvent", "(", ")", ")", ";">>
PubVarLine == <<"eventPublisher", ".", "publishEvent", "(", "event", ")", ";">>
CloseLine == <<"}">>
FieldLine == <<"private", "int", "count", ";">>

PubLines == {SigPlaceLine, SigCancelLine, PubDotLine, PubBusLine, PubBareLine,
             PubVarLine, CloseLine, FieldLine}

Punctuation == {".", "(", ")", "{", "}", ";", ",", "=", "<", ">", "@"}
\* \w+
IsWord(t) == t \notin Punctuation
\* \w+Event
EndsWithEvent(t) == t \in {"OrderPlacedEvent", "OrderCancelledEvent", "publishEvent"}

\* A file of the publisher analysis: the package and class name its text
\* declares (None when it has no such declaration) and its lines.
PubFile(r, p, c, ls) == [readable |-> r, package |-> p, class_name |-> c, lines |-> ls]

PubFiles == {PubFile(TRUE, "com.example.order", "OrderService", ls) : ls \in SeqsUpTo(PubLines, MaxLines)}

\* The other files a tree can hold next to the first.
PubOtherFiles ==
    {PubFile(FALSE, "com.example.order", "OrderService", <<PubDotLine>>),
     PubFile(TRUE, None, None, <<PubBusLine>>),
     PubFile(TRUE, "com.example.order", "OrderService", <<SigCancelLine, PubBareLine, CloseLine>>)}

PubTrees ==
    {<<>>} \cup {<<f>> : f \in PubFiles \cup PubOtherFiles}
           \cup {<<f, g>> : f \in PubFiles, g \in PubOtherFiles}

\* The call-site patterns of _find_publish_calls, as the tokens before the
\* captured event type:
\*   \.publishEvent\s*\(\s*new\s+(\w+Event)
\*   \.publish\s*\(\s*new\s+(\w+Event)
\*   publishEvent\s*\(\s*new\s+(\w+Event)
PublishPatterns ==
    << <<".", "publishEvent", "(", "new">>,
       <<".", "publish", "(", "new">>,
       <<"publishEvent", "(", "new">> >>

\* The positions of line where the pattern matches.
MatchPositions(pattern, line) ==
    {i \in 1..(Len(line) - Len(pattern)) :
        /\ SubSeq(line, i, i + Len(pattern) - 1) = pattern
        /\ EndsWithEvent(line[i + Len(pattern)])}

\* re.search(pattern, line): group(1) of the leftmost match, None without one.
SearchPattern(pattern, line) ==
    LET ps == MatchPositions(pattern, line)
    IN IF ps = {} THEN None
       ELSE line[(CHOOSE i \in ps : \A j \in ps : i <= j) + Len(pattern)]

\* The method pattern of _find_method_name on one line,
\*   (?:public|private|protected)?\s*(?:static\s+)?(?:\w+\s+)*(\w+)\s*\(
\* group(1) of the leftmost match is the first word directly followed by "(".
CallPositions(line) == {i \in 1..(Len(line) - 1) : IsWord(line[i]) /\ line[i + 1] = "("}
SearchMethod(line) ==
    LET ps == CallPositions(line)
    IN IF ps = {} THEN None ELSE line[CHOOSE i \in ps : \A j \in ps : i <= j]

\* for i in range(from, -1, -1), with from + 1 the 1-based number of the
\* first line looked at: the first line going backward that the method
\* pattern matches.
RECURSIVE ScanBackward(_, _)
ScanBackward(lines, n) ==
    IF n = 0 THEN "unknown"
    ELSE IF SearchMethod(lines[n]) # None THEN SearchMethod(lines[n])
    ELSE ScanBackward(lines, n - 1)

\* _find_method_name(lines, target_line): range(target_line - 1, -1, -1)
\* indexes a 0-based list, so the scan starts on line target_line itself.
FindMethodName(lines, target_line) == ScanBackward(lines, target_line)

\* _get_code_snippet(lines, line_num, context=2): the 1-based numbers of the
\* lines the snippet shows.
Max(a, b) == IF a >= b THEN a ELSE b
Min(a, b) == IF a <= b THEN a ELSE b
SnippetContext == 2
GetCodeSnippet(lines, line_num) ==
    LET start == Max(0, line_num - SnippetContext - 1)
        end == Min(Len(lines), line_num + SnippetContext)
    IN [i \in 1..(end - start) |-> start + i]

PublisherInfo(e, c, m, n, snip, p) ==
    [event_name |-> e, class_name |-> c, method_name |-> m, line_number |-> n,
     code_snippet |-> snip, package |-> p]

\* The inner loop "for pattern in patterns" on line line_num: one finding per
\* pattern that matches.
LineFindings(lines, line_num, package, class_name) ==
    LET hits == SelectSeq([k \in 1..Len(PublishPatterns) |-> k],
                          LAMBDA k : SearchPattern(PublishPatterns[k], lines[line_num]) # None)
    IN [h \in 1..Len(hits) |->
          PublisherInfo(SearchPattern(PublishPatterns[hits[h]], lines[line_num]),
                        class_name, FindMethodName(lines, line_num), line_num,
                        GetCodeSnippet(lines, line_num), package)]

\* _find_publish_calls over lines 1..n.
RECURSIVE FindPublishCalls(_, _, _, _)
FindPublishCalls(lines, n, package, class_name) ==
    IF n = 0 THEN <<>>
    ELSE FindPublishCalls(lines, n - 1, package, class_name)
            \o LineFindings(lines, n, package, class_name)

\* _extract_package and _extract_class_name of the publisher analyzer
PubExtractPackage(f) == IF f.package # None THEN f.package ELSE ""
PubExtractClassName(f) == IF f.class_name # None THEN f.class_name ELSE "Unknown"

\* PublisherAnalyzer._analyze_file: the findings the file adds.
PubAnalyzeFileResult(f) ==
    IF ~f.readable THEN <<>>
    ELSE FindPublishCalls(f.lines, Len(f.lines), PubExtractPackage(f), PubExtractClassName(f))

\* save_to_json: the document written
PubJson(pubs) ==
    [publishers |-> pubs,
     summary |-> [total_publishers |-> Len(pubs),
                  events_published |-> {pubs[i].event_name : i \in DOMAIN pubs}]]

\* The loop of PublisherAnalyzer.analyze() over the first n files
RECURSIVE PubAnalyze(_, _)
PubAnalyze(files, n) ==
    IF n = 0 THEN <<>> ELSE PubAnalyze(files, n - 1) \o PubAnalyzeFileResult(files[n])

(***************************************************************************)
(* analyze_publishers.py: the run                                          *)
(***************************************************************************)
InitPub ==
    /\ script = "analyze_publishers"
    /\ root_exists \in BOOLEAN
    /\ java_files \in (IF root_exists THEN PubTrees ELSE {<<>>})
    /\ pc = "main"
    /\ idx = 0
    /\ exit_code = Running
    /\ output = <<>>
    /\ external_entities = <<>>
    /\ processes = <<>>
    /\ data_stores = <<>>
    /\ data_flows = <<>>
    /\ publishers = <<>>
    /\ listeners = <<>>
    /\ events = <<>>
    /\ PipelineIdle
    /\ MermaidIdle
    /\ ExecutorIdle

\* main(): the arguments are parsed and the analyzer is built; rglob over a
\* root that does not exist yields no file.
PubMain ==
    /\ script = "analyze_publishers" /\ pc = "main"
    /\ pc' = "loop"
    /\ UNCHANGED <<script, root_exists, java_files, idx, exit_code, output, dfdVars, pubVars, lisVars, scanVars, pipeVars, mermaidVars, execVars>>

\* One iteration of the loop of analyze(): _analyze_file(java_file).
PubAnalyzeFile ==
    /\ script = "analyze_publishers" /\ pc = "loop" /\ idx < Len(java_files)
    /\ publishers' = publishers \o PubAnalyzeFileResult(java_files[idx + 1])
    /\ idx' = idx + 1
    /\ UNCHANGED <<script, root_exists, java_files, pc, exit_code, output, dfdVars, lisVars, scanVars, pipeVars, mermaidVars, execVars>>

\* The end of main(): save_to_json writes the findings, the summary is
\* printed and the process ends.
PubSave ==
    /\ script = "analyze_publishers" /\ pc = "loop" /\ idx = Len(java_files)
    /\ output' = <<PubJson(publishers)>>
    /\ exit_code' = 0
    /\ pc' = "done"
    /\ UNCHANGED <<script, root_exists, java_files, idx, dfdVars, pubVars, lisVars, scanVars, pipeVars, mermaidVars, execVars>>

NextPub == PubMain \/ PubAnalyzeFile \/ PubSave

SpecPub == InitPub /\ [][NextPub]_vars

(***************************************************************************)
(* analyze_publishers.py: properties                                       *)
(***************************************************************************)
PubFileStep == script = "analyze_publishers" /\ pc = "loop" /\ idx' = idx + 1
\* The findings the step has appended.
AddedPublishers == SubSeq(publishers', Len(publishers) + 1, Len(publishers'))

\* A line that passes a newly constructed event to publishEvent or publish.
IsPublishCall(line) ==
    \E k \in DOMAIN PublishPatterns : SearchPattern(PublishPatterns[k], line) # None

\* C4: _find_publish_calls adds exactly one finding for each line of a file
\* that is a publish call, and none for any other line.
C4_OneFindingPerCall ==
    [][PubFileStep =>
          \A n \in DOMAIN NextFile.lines :
             Cardinality({k \in DOMAIN AddedPublishers : AddedPublishers[k].line_number = n})
               = (IF NextFile.readable /\ IsPublishCall(NextFile.lines[n]) THEN 1 ELSE 0)]_vars

\* C5: the method_name of a finding is the name in the nearest method
\* signature on a line before the publish call ("unknown" without one); the
\* line of the call itself is not looked at.
C5_EnclosingMethod ==
    [][PubFileStep =>
          \A k \in DOMAIN AddedPublishers :
             AddedPublishers[k].method_name
               = ScanBackward(NextFile.lines, AddedPublishers[k].line_number - 1)]_vars

(***************************************************************************)
(* analyze_listeners.py: source lines as token sequences                   *)
(***************************************************************************)
TelLine == <<"@TransactionalEventListener">>
TelPhaseLine == <<"@TransactionalEventListener", "(", "phase", "=", "TransactionPhase", ".", "BEFORE_COMMIT", ")">>
ElLine == <<"@EventListener">>
ElPhaseLine == <<"@EventListener", "(", "phase", "=", "TransactionPhase", ".", "BEFORE_COMMIT", ")">>
ElClassesLine == <<"@EventListener", "(", "classes", "=", "OrderPlacedEvent", ".", "class", ")">>
AsyncLine == <<"@Async">>
OnPlacedLine == <<"public", "void", "onPlaced", "(", "OrderPlacedEvent", "e", ")", "{">>
OnCancelledLine == <<"public", "void", "onCancelled", "(", "OrderCancelledEvent", "e", ")", "{">>
HandleLine == <<"public", "void", "handle", "(", ")", "{">>

LisLines == {TelLine, TelPhaseLine, ElLine, ElPhaseLine, ElClassesLine, AsyncLine, OnPlacedLine,
             OnCancelledLine, HandleLine, CloseLine}

\* A file of the listener analysis, as PubFile: lines are the lines of the
\* class body, class_async tells whether @Async annotates the class.
LisFile(r, p, c, ls) ==
    [readable |-> r, package |-> p, class_name |-> c, lines |-> ls, class_async |-> FALSE]

LisFiles == {LisFile(TRUE, "com.example.order", "OrderHandler", ls) : ls \in SeqsUpTo(LisLines, MaxLines)}

LisOtherFiles ==
    {LisFile(FALSE, "com.example.order", "OrderHandler", <<ElLine, OnPlacedLine>>),
     LisFile(TRUE, None, None, <<TelLine, OnPlacedLine>>),
     [LisFile(TRUE, "com.example.order", "OrderHandler", <<ElLine, OnPlacedLine>>)
        EXCEPT !.class_async = TRUE]}

LisTrees ==
    {<<>>} \cup {<<f>> : f \in LisFiles \cup LisOtherFiles}
           \cup {<<f, g>> : f \in LisFiles, g \in LisOtherFiles}

\* 'text' in line
Contains(line, tok) == \E i \in DOMAIN line : line[i] = tok

\* The token after the leftmost occurrence of prefix in line that is one of
\* accepted; None when there is none. Models re.search(prefix + group, line).group(1).
SearchAfter(prefix, line, accepted) ==
    LET ps == {i \in 1..(Len(line) - Len(prefix)) :
                  /\ SubSeq(line, i, i + Len(prefix) - 1) = prefix
                  /\ line[i + Len(prefix)] \in accepted}
    IN IF ps = {} THEN None
       ELSE line[(CHOOSE i \in ps : \A j \in ps : i <= j) + Len(prefix)]

\* phase\s*=\s*TransactionPhase\.(\w+)
SearchPhase(line) ==
    SearchAfter(<<"phase", "=", "TransactionPhase", ".">>, line,
                {line[i] : i \in {j \in 1..Len(line) : IsWord(line[j])}})

\* A double-quoted literal is one token; none of the line shapes has one.
IsStringLiteral(t) == FALSE
\* condition\s*=\s*"([^"]+)"
SearchCondition(line) ==
    SearchAfter(<<"condition", "=">>, line,
                {line[i] : i \in {j \in 1..Len(line) : IsStringLiteral(line[j])}})

Visibility == {"public", "private", "protected"}

\* (public|private|protected)\s+\w+\s+(\w+)\s*\( : the positions it matches at
SignaturePositions(line) ==
    {i \in 1..(Len(line) - 3) :
        /\ line[i] \in Visibility
        /\ IsWord(line[i + 1]) /\ IsWord(line[i + 2])
        /\ line[i + 3] = "("}
HasSignature(line) == SignaturePositions(line) # {}
\* group(2) of the leftmost match
SignatureName(line) ==
    line[(CHOOSE i \in SignaturePositions(line) : \A j \in SignaturePositions(line) : i <= j) + 2]

\* _extract_event_from_parameter: \(([^)]+)\) takes the text between the
\* first "(" that is not directly closed and the next ")"; in it
\* (\w+Event)\s+\w+ is a type ending in Event followed by a word.
ExtractEventFromParameter(line) ==
    LET opens == {i \in 1..(Len(line) - 2) :
                     /\ line[i] = "(" /\ line[i + 1] # ")"
                     /\ \E j \in (i + 2)..Len(line) : line[j] = ")"}
    IN IF opens = {} THEN None
       ELSE LET o == CHOOSE i \in opens : \A j \in opens : i <= j
                closes == {j \in (o + 2)..Len(line) : line[j] = ")"}
                c == CHOOSE j \in closes : \A k \in closes : j <= k
                hits == {k \in (o + 1)..(c - 2) :
                            EndsWithEvent(line[k]) /\ IsWord(line[k + 1])}
            IN IF hits = {} THEN None
               ELSE line[CHOOSE k \in hits : \A m \in hits : k <= m]

\* classes\s*=\s*\{?\s*(\w+Event)\.class
SearchClasses(line) ==
    LET ps == {i \in 1..(Len(line) - 4) :
                  \/ /\ SubSeq(line, i, i + 1) = <<"classes", "=">>
                     /\ EndsWithEvent(line[i + 2])
                     /\ SubSeq(line, i + 3, i + 4) = <<".", "class">>
                  \/ /\ i + 5 <= Len(line)
                     /\ SubSeq(line, i, i + 2) = <<"classes", "=", "{">>
                     /\ EndsWithEvent(line[i + 3])
                     /\ SubSeq(line, i + 4, i + 5) = <<".", "class">>}
    IN IF ps = {} THEN None
       ELSE LET i == CHOOSE i \in ps : \A j \in ps : i <= j
            IN IF line[i + 2] = "{" THEN line[i + 3] ELSE line[i + 2]

\* @\w+EventListener\s*\(\s*(\w+Event)\.class : \w+ needs a character between
\* "@" and "EventListener", so only @TransactionalEventListener matches.
SearchSingleClass(line) ==
    LET ps == {i \in 1..(Len(line) - 4) :
                  /\ SubSeq(line, i, i + 1) = <<"@TransactionalEventListener", "(">>
                  /\ EndsWithEvent(line[i + 2])
                  /\ SubSeq(line, i + 3, i + 4) = <<".", "class">>}
    IN IF ps = {} THEN None
       ELSE line[(CHOOSE i \in ps : \A j \in ps : i <= j) + 2]

ListenerInfo(e, c, m, n, p, a, t, ph, cond, doc) ==
    [event_name |-> e, class_name |-> c, method_name |-> m, line_number |-> n,
     package |-> p, is_async |-> a, is_transactional |-> t,
     transaction_phase |-> ph, condition |-> cond, javadoc |-> doc]

\* strip().startswith('public')
StartsWithPublic(line) == Len(line) > 0 /\ line[1] = "public"

\* The while loop of _parse_listener after the annotation line start (a
\* 1-based line number): is there an @Async before the first line that
\* starts with public.
AsyncBeforeMethod(lines, start) ==
    \E i \in (start + 1)..Len(lines) :
        /\ Contains(lines[i], "@Async")
        /\ \A j \in (start + 1)..i : ~StartsWithPublic(lines[j])

\* The window in which the method declaration is looked for
SignatureWindow == 10

\* _extract_javadoc: the line shapes hold no comment, so no text is found.
ExtractJavadoc(lines, start) == None

ParseListener_C28mut(lines, start, package, class_name, has_class_async) ==
    LET annotation_line == lines[start]
        is_transactional == Contains(annotation_line, "@TransactionalEventListener")
        transaction_phase == SearchPhase(annotation_line)
        condition == SearchCondition(annotation_line)
        is_async == has_class_async \/ AsyncBeforeMethod(lines, start)
        js == {j \in (start + 1)..Min(start + SignatureWindow - 1, Len(lines)) :
                  HasSignature(lines[j])}
    IN IF js = {} THEN <<>>
       ELSE LET method_line == CHOOSE j \in js : \A k \in js : j <= k
                method_name == SignatureName(lines[method_line])
                from_param == ExtractEventFromParameter(lines[method_line])
                event_name ==
                    IF from_param # None THEN from_param
                    ELSE IF SearchClasses(annotation_line) # None
                         THEN SearchClasses(annotation_line)
                    ELSE SearchSingleClass(annotation_line)
            IN IF event_name = None THEN <<>>
               ELSE <<ListenerInfo(event_name, class_name, method_name, start, package,
                                   is_async, is_transactional, transaction_phase,
                                   condition, ExtractJavadoc(lines, start))>>

ParseListener_C16mut(lines, start, package, class_name, has_class_async) ==
    LET annotation_line == lines[start]
        is_transactional == Contains(annotation_line, "@TransactionalEventListener")
        transaction_phase == IF is_transactional THEN SearchPhase(annotation_line) ELSE None
        condition == SearchCondition(annotation_line)
        is_async == has_class_async \/ AsyncBeforeMethod(lines, start)
        js == {j \in (start + 1)..Min(start + SignatureWindow - 1, Len(lines)) :
                  HasSignature(lines[j])}
    IN IF js = {} THEN <<>>
       ELSE LET method_line == CHOOSE j \in js : \A k \in js : j <= k
                method_name == SignatureName(lines[method_line])
                from_param == ExtractEventFromParameter(lines[method_line])
                event_name ==
                    IF SearchClasses(annotation_line) # None
                    THEN SearchClasses(annotation_line)
                    ELSE IF SearchSingleClass(annotation_line) # None
                         THEN SearchSingleClass(annotation_line)
                    ELSE from_param
            IN IF event_name = None THEN <<>>
               ELSE <<ListenerInfo(event_name, class_name, method_name, start, package,
                                   is_async, is_transactional, transaction_phase,
                                   condition, ExtractJavadoc(lines, start))>>

\* _parse_listener(lines, start_line, ...) with start = start_line + 1, the
\* 1-based number of the annotation line: <<>> for a None result, else the
\* one record.
ParseListener(lines, start, package, class_name, has_class_async) ==
    LET annotation_line == lines[start]
        is_transactional == Contains(annotation_line, "@TransactionalEventListener")
        transaction_phase == IF is_transactional THEN SearchPhase(annotation_line) ELSE None
        condition == SearchCondition(annotation_line)
        is_async == has_class_async \/ AsyncBeforeMethod(lines, start)
        js == {j \in (start + 1)..Min(start + SignatureWindow - 1, Len(lines)) :
                  HasSignature(lines[j])}
    IN IF js = {} THEN <<>>
       ELSE LET method_line == CHOOSE j \in js : \A k \in js : j <= k
                method_name == SignatureName(lines[method_line])
                from_param == ExtractEventFromParameter(lines[method_line])
                event_name ==
                    IF from_param # None THEN from_param
                    ELSE IF SearchClasses(annotation_line) # None
                         THEN SearchClasses(annotation_line)
                    ELSE SearchSingleClass(annotation_line)
            IN IF event_name = None THEN <<>>
               ELSE <<ListenerInfo(event_name, class_name, method_name, start, package,
                                   is_async, is_transactional, transaction_phase,
                                   condition, ExtractJavadoc(lines, start))>>

\* _find_listeners over lines 1..n.
RECURSIVE FindListeners(_, _, _, _, _)
FindListeners(lines, n, package, class_name, has_class_async) ==
    IF n = 0 THEN <<>>
    ELSE FindListeners(lines, n - 1, package, class_name, has_class_async)
           \o (IF Contains(lines[n], "@EventListener")
                  \/ Contains(lines[n], "@TransactionalEventListener")
               THEN ParseListener(lines, n, package, class_name, has_class_async)
               ELSE <<>>)

LisExtractPackage(f) == IF f.package # None THEN f.package ELSE ""
LisExtractClassName(f) == IF f.class_name # None THEN f.class_name ELSE "Unknown"

\* ListenerAnalyzer._analyze_file: the records the file adds.
LisAnalyzeFileResult(f) ==
    IF ~f.readable THEN <<>>
    ELSE FindListeners(f.lines, Len(f.lines), LisExtractPackage(f), LisExtractClassName(f),
                       f.class_async \/ \E i \in DOMAIN f.lines : Contains(f.lines[i], "@Async"))

\* save_to_json: asdict keeps every field, a None value is written as null.
LisJson(ls) ==
    [listeners |-> ls,
     summary |-> [total_listeners |-> Len(ls),
                  async_listeners |-> Cardinality({i \in DOMAIN ls : ls[i].is_async}),
                  transactional_listeners |-> Cardinality({i \in DOMAIN ls : ls[i].is_transactional}),
                  events_listened |-> {ls[i].event_name : i \in DOMAIN ls}]]

\* dict.get(key, default): the default is used only when the key is absent.
DictGet(d, key, default) == IF key \in DOMAIN d THEN d[key] ELSE default

\* The phase generate_event_docs.py prints for a transactional listener
DocPhase(listener) == DictGet(listener, "transaction_phase", "AFTER_COMMIT")
\* The phase generate_diagrams.py labels the edge of a transactional listener with
DiagramPhase(listener) == DictGet(listener, "transaction_phase", "TX")

\* The loop of ListenerAnalyzer.analyze() over the first n files
RECURSIVE LisAnalyze(_, _)
LisAnalyze(files, n) ==
    IF n = 0 THEN <<>> ELSE LisAnalyze(files, n - 1) \o LisAnalyzeFileResult(files[n])

(***************************************************************************)
(* analyze_listeners.py: the run                                           *)
(***************************************************************************)
InitLis ==
    /\ script = "analyze_listeners"
    /\ root_exists \in BOOLEAN
    /\ java_files \in (IF root_exists THEN LisTrees ELSE {<<>>})
    /\ pc = "main"
    /\ idx = 0
    /\ exit_code = Running
    /\ output = <<>>
    /\ external_entities = <<>>
    /\ processes = <<>>
    /\ data_stores = <<>>
    /\ data_flows = <<>>
    /\ publishers = <<>>
    /\ listeners = <<>>
    /\ events = <<>>
    /\ PipelineIdle
    /\ MermaidIdle
    /\ ExecutorIdle

\* main(): the arguments are parsed and the analyzer is built.
LisMain ==
    /\ script = "analyze_listeners" /\ pc = "main"
    /\ pc' = "loop"
    /\ UNCHANGED <<script, root_exists, java_files, idx, exit_code, output, dfdVars, pubVars, lisVars, scanVars, pipeVars, mermaidVars, execVars>>

\* One iteration of the loop of analyze(): _analyze_file(java_file).
LisAnalyzeFile ==
    /\ script = "analyze_listeners" /\ pc = "loop" /\ idx < Len(java_files)
    /\ listeners' = listeners \o LisAnalyzeFileResult(java_files[idx + 1])
    /\ idx' = idx + 1
    /\ UNCHANGED <<script, root_exists, java_files, pc, exit_code, output, dfdVars, pubVars, scanVars, pipeVars, mermaidVars, execVars>>

\* The end of main(): save_to_json writes the records and the process ends.
LisSave ==
    /\ script = "analyze_listeners" /\ pc = "loop" /\ idx = Len(java_files)
    /\ output' = <<LisJson(listeners)>>
    /\ exit_code' = 0
    /\ pc' = "done"
    /\ UNCHANGED <<script, root_exists, java_files, idx, dfdVars, pubVars, lisVars, scanVars, pipeVars, mermaidVars, execVars>>

NextLis == LisMain \/ LisAnalyzeFile \/ LisSave

SpecLis == InitLis /\ [][NextLis]_vars

(***************************************************************************)
(* analyze_listeners.py: properties                                        *)
(***************************************************************************)
LisFileStep == script = "analyze_listeners" /\ pc = "loop" /\ idx' = idx + 1
AddedListeners == SubSeq(listeners', Len(listeners) + 1, Len(listeners'))

\* C6: a listener found on a @TransactionalEventListener line without a phase
\* argument has the phase AFTER_COMMIT in its serialized record and in what
\* the document and diagram renderers print for it, never None.
C6_DefaultPhase ==
    [][LisFileStep =>
          \A k \in DOMAIN AddedListeners :
             LET l == AddedListeners[k]
                 annotation_line == NextFile.lines[l.line_number]
             IN (Contains(annotation_line, "@TransactionalEventListener")
                   /\ SearchPhase(annotation_line) = None) =>
                    /\ l.transaction_phase = "AFTER_COMMIT"
                    /\ DocPhase(l) = "AFTER_COMMIT"
                    /\ DiagramPhase(l) # None]_vars

\* A line that carries an event-subscription marker.
IsListenerAnnotation(line) ==
    Contains(line, "@EventListener") \/ Contains(line, "@TransactionalEventListener")

\* The lines after annotation line n in which the method declaration is
\* looked for, and the first of them that is a method signature (0: none).
SignatureLines(lines, n) ==
    {j \in (n + 1)..Min(n + SignatureWindow - 1, Len(lines)) :
        lines[j] \in {OnPlacedLine, OnCancelledLine, HandleLine}}
MethodLineOf(lines, n) ==
    IF SignatureLines(lines, n) = {} THEN 0
    ELSE CHOOSE j \in SignatureLines(lines, n) : \A k \in SignatureLines(lines, n) : j <= k

\* The event type a method signature declares as its parameter.
ParameterEvent(line) ==
    CASE line = OnPlacedLine -> "OrderPlacedEvent"
      [] line = OnCancelledLine -> "OrderCancelledEvent"
      [] OTHER -> None
\* The event type an annotation line names as a class reference.
AnnotationEvent(line) ==
    CASE line = ElClassesLine -> "OrderPlacedEvent"
      [] OTHER -> None

\* The records a step has added for annotation line n.
ListenersAt(n) == {k \in DOMAIN AddedListeners : AddedListeners[k].line_number = n}

\* C15: an annotation line followed by a method signature yields a listener
\* record even when neither the parameter nor the annotation names an event
\* type; the record then has no event name.
C15_UnresolvedStillEmitted ==
    [][(LisFileStep /\ NextFile.readable) =>
          \A n \in DOMAIN NextFile.lines :
             (/\ IsListenerAnnotation(NextFile.lines[n])
              /\ MethodLineOf(NextFile.lines, n) # 0
              /\ ParameterEvent(NextFile.lines[MethodLineOf(NextFile.lines, n)]) = None
              /\ AnnotationEvent(NextFile.lines[n]) = None) =>
                 \E k \in ListenersAt(n) : AddedListeners[k].event_name = None]_vars

\* C16: the event name of a listener record is the Event type of the method's
\* parameter when it has one, and the class the annotation refers to only
\* when it has none; when both are there and differ the parameter's is taken.
C16_ParameterBeforeAnnotation ==
    [][(LisFileStep /\ NextFile.readable) =>
          \A k \in DOMAIN AddedListeners :
             LET n == AddedListeners[k].line_number
                 sig == NextFile.lines[MethodLineOf(NextFile.lines, n)]
             IN AddedListeners[k].event_name =
                   (IF ParameterEvent(sig) # None THEN ParameterEvent(sig)
                    ELSE AnnotationEvent(NextFile.lines[n]))]_vars

\* C16 witness: a record was made for an annotation that refers to
\* OrderPlacedEvent on a method whose parameter is an OrderCancelledEvent.
C16_Witness ==
    /\ script = "analyze_listeners" /\ pc = "loop" /\ idx = 1
    /\ \E k \in DOMAIN listeners :
          /\ LastFile.lines[listeners[k].line_number] = ElClassesLine
          /\ listeners[k].method_name = "onCancelled"
          /\ listeners[k].event_name = "OrderCancelledEvent"

\* C26: a listener is asynchronous exactly when @Async annotates its class
\* or stands between its annotation line and its method signature; an
\* @Async elsewhere in the file does not make it asynchronous.
C26_AsyncOwnDeclaration ==
    [][(LisFileStep /\ NextFile.readable) =>
          \A k \in DOMAIN AddedListeners :
             LET n == AddedListeners[k].line_number
             IN AddedListeners[k].is_async <=>
                   \/ NextFile.class_async
                   \/ \E i \in (n + 1)..(MethodLineOf(NextFile.lines, n) - 1) :
                         NextFile.lines[i] = AsyncLine]_vars

\* C28: a listener record with a transaction phase is transactional; a plain
\* @EventListener has no phase even when its line has a phase argument.
C28_PhaseOnlyTransactional ==
    \A k \in DOMAIN listeners :
        listeners[k].transaction_phase # None => listeners[k].is_transactional

\* C28 witness: a record was made for an @EventListener line that has a
\* phase argument, and another for a transactional listener with a phase.
C28_Witness ==
    /\ script = "analyze_listeners" /\ pc = "loop" /\ idx = 1
    /\ \E k \in DOMAIN listeners :
          /\ LastFile.lines[listeners[k].line_number] = ElPhaseLine
          /\ listeners[k].transaction_phase = None
    /\ \E k \in DOMAIN listeners :
          /\ listeners[k].is_transactional
          /\ listeners[k].transaction_phase = "BEFORE_COMMIT"

(***************************************************************************)
(* scan_events.py: the files                                               *)
(***************************************************************************)
\* Text is a sequence of symbols: " " is a run of whitespace, "," a comma,
\* ")" a closing parenthesis, and any other symbol a maximal run of other
\* characters.
\* The parameter types of the model, as text.
StringType == <<"String">>
ListType == <<"java.util.List<String>">>
MapType == <<"Map<String", ",", " ", "Integer>">>
ParamTypes == {StringType, ListType, MapType}
ParamNames == {"orderId", "items"}

\* The declared parameters of a record: each a type and a name.
Param(t, n) == [type |-> t, name |-> n]
ParamLists == SeqsUpTo({Param(t, n) : t \in ParamTypes, n \in ParamNames}, MaxParams)

\* The text between the parentheses of "record X(...)" for declared parameters
RECURSIVE RenderParams(_)
RenderParams(ps) ==
    IF ps = <<>> THEN <<>>
    ELSE ps[1].type \o <<" ", ps[1].name>>
           \o (IF Len(ps) = 1 THEN <<>> ELSE <<",", " ">> \o RenderParams(Tail(ps)))

\* A file of the event scan: whether its path is in an event package, the
\* segments of its package statement (NoPackage without one), the keyword and name
\* of its declaration (None without one), what the declaration extends,
\* whether it implements an interface, whether @DomainEvent occurs, the
\* declared parameters when it is a record, and the doc comments, annotations
\* and private fields of its text in order (none unless it is an EvtClassFile).
EvtFile(r, ep, pk, d, c, ex, im, de, ps) ==
    [readable |-> r, event_path |-> ep, package |-> pk, decl |-> d, class_name |-> c,
     extends |-> ex, implements |-> im, domain_event |-> de, params |-> ps, body |-> <<>>]

OrderEventPackage == <<"com", "example", "order", "event">>
NoPackage == <<>>

EvtRecordFiles ==
    {EvtFile(TRUE, TRUE, OrderEventPackage, "record", "OrderPlacedEvent", None, FALSE, FALSE, ps) :
        ps \in ParamLists}

EvtOtherFiles ==
    {EvtFile(FALSE, TRUE, OrderEventPackage, "record", "OrderPlacedEvent", None, FALSE, FALSE,
             <<Param(StringType, "orderId")>>),
     EvtFile(TRUE, FALSE, OrderEventPackage, "record", "OrderPlacedEvent", None, FALSE, FALSE,
             <<Param(StringType, "orderId")>>),
     EvtFile(TRUE, TRUE, OrderEventPackage, "record", "OrderDto", None, FALSE, FALSE,
             <<Param(StringType, "orderId")>>),
     EvtFile(TRUE, TRUE, <<"com", "example", "order", "domain", "event">>, "class",
             "OrderCancelledEvent", "BaseEvent", FALSE, FALSE, <<>>),
     EvtFile(TRUE, TRUE, <<"com", "example", "billing">>, "class", "Invoiced", None, FALSE, TRUE, <<>>),
     EvtFile(TRUE, TRUE, NoPackage, None, None, None, FALSE, TRUE, <<>>),
     EvtFile(TRUE, TRUE, NoPackage, "record", "OrderPlacedEvent", None, FALSE, FALSE, <<>>),
     EvtFile(TRUE, TRUE, <<"com", "event">>, "record", "OrderPlacedEvent", None, FALSE, FALSE, <<>>),
     EvtFile(TRUE, TRUE, <<"event", "domain", "order">>, "record", "OrderPlacedEvent", None,
             FALSE, FALSE, <<>>),
     EvtFile(TRUE, TRUE, <<"com", "org">>, "record", "OrderPlacedEvent", None, FALSE, FALSE, <<>>)}

\* The items of the text of an ordinary class: a /** ... */ comment with its
\* cleaned text, an annotation, the class declaration, or a declaration
\* "private <type> <name>;".
Item(kind, text, type) == [kind |-> kind, text |-> text, type |-> type]
ClassDoc == Item("doc", "Raised when an order is cancelled.", <<>>)
ClassDecl == Item("class", "OrderCancelledEvent", <<>>)
FieldDoc == Item("doc", "The order id.", <<>>)
NotNullAnnotation == Item("annotation", "@NotNull", <<>>)
OrderIdField == Item("field", "orderId", StringType)
\* The field pattern's type part [\w<>,\s]+ takes no ".", so the field types
\* of the model are unqualified.
ItemsField == Item("field", "items", <<"List<String>">>)

\* The members after the class declaration: no field is declared twice.
MemberLists ==
    {ms \in SeqsUpTo({FieldDoc, NotNullAnnotation, OrderIdField, ItemsField}, MaxLines) :
        \A i, j \in DOMAIN ms : (ms[i].kind = "field" /\ ms[i] = ms[j]) => i = j}

EvtClassFiles ==
    {[EvtFile(TRUE, TRUE, OrderEventPackage, "class", "OrderCancelledEvent", "BaseEvent",
              FALSE, FALSE, <<>>) EXCEPT !.body = header \o <<ClassDecl>> \o ms] :
        header \in {<<>>, <<ClassDoc>>}, ms \in MemberLists}

\* What can stand before the declaration of a class: annotations, block
\* comments of some length, and the modifier "public " directly before the
\* keyword.
DomainEventAnnotation == Item("annotation", "@DomainEvent", <<>>)
DeprecatedAnnotation == Item("annotation", "@Deprecated", <<>>)
LicenseComment == Item("comment", "/* license text */", <<>>)
NoteComment == Item("comment", "/* note */", <<>>)
PublicModifier == Item("modifier", "public ", <<>>)

\* The number of characters an item takes in the text, its line end included.
ItemLength(item) ==
    CASE item = DomainEventAnnotation -> 13
      [] item = DeprecatedAnnotation -> 12
      [] item = NotNullAnnotation -> 9
      [] item = LicenseComment -> 495
      [] item = NoteComment -> 100
      [] item = PublicModifier -> 7
      [] item = ClassDoc -> 42
      [] item = FieldDoc -> 21
      [] OTHER -> 30

\* Class files whose declaration is preceded by annotations and comments.
EvtAnnotatedFiles ==
    {[EvtFile(TRUE, TRUE, OrderEventPackage, "class", "OrderCancelledEvent", "BaseEvent",
              FALSE, \E i \in DOMAIN header : header[i] = DomainEventAnnotation, <<>>)
        EXCEPT !.body = header \o <<PublicModifier, ClassDecl>>] :
        header \in SeqsUpTo({DomainEventAnnotation, DeprecatedAnnotation,
                             LicenseComment, NoteComment}, MaxLines)}

EvtTrees ==
    {<<>>} \cup {<<f>> : f \in EvtRecordFiles \cup EvtClassFiles \cup EvtAnnotatedFiles
                                 \cup EvtOtherFiles}
           \cup {<<f, g>> : f \in EvtRecordFiles \cup EvtClassFiles \cup EvtAnnotatedFiles
                                    \cup EvtOtherFiles,
                            g \in EvtOtherFiles}

(***************************************************************************)
(* scan_events.py: extraction                                              *)
(***************************************************************************)
\* \w+Event in a declaration name
NameEndsWithEvent(c) == c \in {"OrderPlacedEvent", "OrderCancelledEvent"}

\* _is_event_class: any of EVENT_PATTERNS is found.
IsEventClass(f) ==
    \/ f.decl = "class" /\ NameEndsWithEvent(f.class_name) /\ f.extends # None
    \/ f.decl = "class" /\ NameEndsWithEvent(f.class_name) /\ f.implements
    \/ f.decl = "record" /\ NameEndsWithEvent(f.class_name)
    \/ f.domain_event

\* _extract_package: "" without a package statement; as segments, "" is the
\* one empty segment that "".split('.') gives.
ExtractPackage(f) == IF f.package # NoPackage THEN f.package ELSE <<"">>

\* The index of the first occurrence of sym in text, 0 when there is none.
FirstIndex(text, sym) ==
    IF \E i \in DOMAIN text : text[i] = sym
    THEN CHOOSE i \in DOMAIN text : text[i] = sym /\ \A j \in 1..(i - 1) : text[j] # sym
    ELSE 0

\* record\s+\w+\s*\((.*?)\) : group(1) ends before the first ")".
RecordParamText(text) ==
    IF FirstIndex(text, ")") = 0 THEN text ELSE SubSeq(text, 1, FirstIndex(text, ")") - 1)

\* str.split(',')
RECURSIVE SplitComma(_)
SplitComma(text) ==
    IF FirstIndex(text, ",") = 0 THEN <<text>>
    ELSE <<SubSeq(text, 1, FirstIndex(text, ",") - 1)>>
           \o SplitComma(SubSeq(text, FirstIndex(text, ",") + 1, Len(text)))

\* str.strip() followed by str.split(): the whitespace-separated parts.
Words(text) == SelectSeq(text, LAMBDA sym : sym # " ")

\* ' '.join(parts)
RECURSIVE JoinSpace(_)
JoinSpace(parts) ==
    IF parts = <<>> THEN <<>>
    ELSE IF Len(parts) = 1 THEN parts
    ELSE <<parts[1], " ">> \o JoinSpace(Tail(parts))

FieldInfo(n, t, doc, anns) == [name |-> n, type |-> t, javadoc |-> doc, annotations |-> anns]

\* The body of the loop "for param in params.split(',')" for the pieces from
\* position k on.
RECURSIVE RecordFields(_, _)
RecordFields(pieces, k) ==
    IF k > Len(pieces) THEN <<>>
    ELSE LET parts == Words(pieces[k])
         IN (IF Len(parts) >= 2
             THEN <<FieldInfo(parts[Len(parts)], JoinSpace(SubSeq(parts, 1, Len(parts) - 1)),
                              None, <<>>)>>
             ELSE <<>>)
            \o RecordFields(pieces, k + 1)

\* The text of the last /** ... */ comment among the first n items of body,
\* None without one.
LastDocBefore(body, n) ==
    LET docs == {i \in 1..n : body[i].kind = "doc"}
    IN IF docs = {} THEN None ELSE body[CHOOSE i \in docs : \A j \in docs : j <= i].text

\* _extract_class_javadoc: the last doc comment before the declaration.
ExtractClassJavadoc(body) ==
    LET decls == {i \in DOMAIN body : body[i].kind = "class"}
    IN IF decls = {} THEN None
       ELSE LastDocBefore(body, (CHOOSE i \in decls : \A j \in decls : i <= j) - 1)

\* The position in the text at which item i of body starts.
RECURSIVE Offset(_, _)
Offset(body, i) == IF i = 1 THEN 0 ELSE Offset(body, i - 1) + ItemLength(body[i - 1])

\* The lookback of _extract_class_annotations, in characters
LookbackWindow == 500

ExtractClassAnnotations_C27mut(body) ==
    LET decls == {i \in DOMAIN body : body[i].kind = "class"}
    IN IF decls = {} THEN <<>>
       ELSE LET decl == CHOOSE i \in decls : \A j \in decls : i <= j
                hits == SelectSeq([i \in 1..(decl - 1) |-> i],
                                  LAMBDA i : body[i].kind = "annotation")
            IN [k \in 1..Len(hits) |-> body[hits[k]].text]

\* _extract_class_annotations: the matches of the annotation pattern in
\* content[start_pos:class_match.start()]. An annotation cut by start_pos has
\* lost its "@" and does not match.
ExtractClassAnnotations(body) ==
    LET decls == {i \in DOMAIN body : body[i].kind = "class"}
    IN IF decls = {} THEN <<>>
       ELSE LET decl == CHOOSE i \in decls : \A j \in decls : i <= j
                start_pos == Max(0, Offset(body, decl) - LookbackWindow)
                hits == SelectSeq([i \in 1..(decl - 1) |-> i],
                                  LAMBDA i : /\ body[i].kind = "annotation"
                                             /\ Offset(body, i) >= start_pos)
            IN [k \in 1..Len(hits) |-> body[hits[k]].text]

\* (\w+) directly before the name: the type text ends in a word character.
EndsInWord(type) == type = StringType

\* _extract_field_javadoc: (\w+)\s+name\s*; finds the first declaration of the
\* name whose type ends in a word character (None without one); the result is
\* the last doc comment in content[:field_match.start()].
ExtractFieldJavadoc(body, field_name) ==
    LET decls == {i \in DOMAIN body : /\ body[i].kind = "field"
                                      /\ body[i].text = field_name
                                      /\ EndsInWord(body[i].type)}
    IN IF decls = {} THEN None
       ELSE LastDocBefore(body, (CHOOSE i \in decls : \A j \in decls : i <= j) - 1)

\* _extract_field_annotations: [\w<>,\s]+ spans neither ";" nor "@" nor "/",
\* so a match is an annotation directly followed by the declaration of the name.
ExtractFieldAnnotations(body, field_name) ==
    LET hits == SelectSeq([i \in 1..(Len(body) - 1) |-> i],
                          LAMBDA i : /\ body[i].kind = "annotation"
                                     /\ body[i + 1].kind = "field"
                                     /\ body[i + 1].text = field_name)
    IN [k \in 1..Len(hits) |-> body[hits[k]].text]

\* The loop over re.finditer(field_pattern, content): one FieldInfo per
\* private field declaration.
ClassFields(body) ==
    LET decls == SelectSeq([i \in 1..Len(body) |-> i], LAMBDA i : body[i].kind = "field")
    IN [k \in 1..Len(decls) |->
          FieldInfo(body[decls[k]].text, body[decls[k]].type,
                    ExtractFieldJavadoc(body, body[decls[k]].text),
                    ExtractFieldAnnotations(body, body[decls[k]].text))]

\* _extract_fields: the record branch works on the rendered parameter text,
\* the other on the private field declarations.
ExtractFields(f, is_record) ==
    IF is_record
    THEN RecordFields(SplitComma(RecordParamText(RenderParams(f.params))), 1)
    ELSE ClassFields(f.body)

\* str.capitalize() of a package segment
Capitalize(seg) ==
    CASE seg = "order" -> "Order"
      [] seg = "billing" -> "Billing"
      [] seg = "example" -> "Example"
      [] seg = "com" -> "Com"
      [] seg = "domain" -> "Domain"
      [] seg = "event" -> "Event"
      [] seg = "events" -> "Events"
      [] OTHER -> seg

ContextMarkers == {"domain", "event", "events"}
GenericSegments == {"com", "org", "net", "domain", "event", "events"}

\* _infer_bounded_context
InferBoundedContext(parts) ==
    LET marks == {i \in DOMAIN parts : parts[i] \in ContextMarkers /\ i > 1}
        meaningful_parts == SelectSeq(parts, LAMBDA seg : seg \notin GenericSegments)
    IN IF marks # {}
       THEN Capitalize(parts[(CHOOSE i \in marks : \A j \in marks : i <= j) - 1])
       ELSE IF meaningful_parts # <<>>
            THEN Capitalize(meaningful_parts[Len(meaningful_parts)])
            ELSE "Unknown"

EventInfo(n, p, bc, doc, fs, ex, an, rec) ==
    [name |-> n, package |-> p, bounded_context |-> bc, javadoc |-> doc,
     fields |-> fs, extends |-> ex, annotations |-> an, is_record |-> rec]

\* _parse_event_file: <<>> for a None result, else the one EventInfo.
ParseEventFile(f) ==
    IF ~f.readable THEN <<>>
    ELSE IF ~IsEventClass(f) THEN <<>>
    ELSE IF f.class_name = None THEN <<>>
    ELSE LET is_record == f.decl = "record"
         IN <<EventInfo(f.class_name, ExtractPackage(f),
                        InferBoundedContext(ExtractPackage(f)),
                        ExtractClassJavadoc(f.body),
                        ExtractFields(f, is_record),
                        IF f.decl = "class" THEN f.extends ELSE None,
                        IF f.body # <<>> THEN ExtractClassAnnotations(f.body)
                        ELSE IF f.domain_event THEN <<"@DomainEvent">> ELSE <<>>,
                        is_record)>>

\* The body of the loop of scan() for one file
ScanFileResult(f) == IF f.event_path THEN ParseEventFile(f) ELSE <<>>

\* save_to_json
EvtJson(evs) ==
    [events |-> evs,
     summary |-> [total_events |-> Len(evs),
                  bounded_contexts |-> {evs[i].bounded_context : i \in DOMAIN evs}]]

\* The loop of EventScanner.scan() over the first n files
RECURSIVE Scan(_, _)
Scan(files, n) ==
    IF n = 0 THEN <<>> ELSE Scan(files, n - 1) \o ScanFileResult(files[n])

(***************************************************************************)
(* scan_events.py: the run                                                 *)
(***************************************************************************)
InitScan ==
    /\ script = "scan_events"
    /\ root_exists \in BOOLEAN
    /\ java_files \in (IF root_exists THEN EvtTrees ELSE {<<>>})
    /\ pc = "main"
    /\ idx = 0
    /\ exit_code = Running
    /\ output = <<>>
    /\ external_entities = <<>>
    /\ processes = <<>>
    /\ data_stores = <<>>
    /\ data_flows = <<>>
    /\ publishers = <<>>
    /\ listeners = <<>>
    /\ events = <<>>
    /\ PipelineIdle
    /\ MermaidIdle
    /\ ExecutorIdle

\* main(): the arguments are parsed and the scanner is built.
ScanMain ==
    /\ script = "scan_events" /\ pc = "main"
    /\ pc' = "loop"
    /\ UNCHANGED <<script, root_exists, java_files, idx, exit_code, output, dfdVars, pubVars, lisVars, scanVars, pipeVars, mermaidVars, execVars>>

\* One iteration of the loop of scan().
ScanFile ==
    /\ script = "scan_events" /\ pc = "loop" /\ idx < Len(java_files)
    /\ events' = events \o ScanFileResult(java_files[idx + 1])
    /\ idx' = idx + 1
    /\ UNCHANGED <<script, root_exists, java_files, pc, exit_code, output, dfdVars, pubVars, lisVars, pipeVars, mermaidVars, execVars>>

\* The end of main(): save_to_json writes the events and the process ends.
ScanSave ==
    /\ script = "scan_events" /\ pc = "loop" /\ idx = Len(java_files)
    /\ output' = <<EvtJson(events)>>
    /\ exit_code' = 0
    /\ pc' = "done"
    /\ UNCHANGED <<script, root_exists, java_files, idx, dfdVars, pubVars, lisVars, scanVars, pipeVars, mermaidVars, execVars>>

NextScan == ScanMain \/ ScanFile \/ ScanSave

SpecScan == InitScan /\ [][NextScan]_vars

(***************************************************************************)
(* scan_events.py: properties                                              *)
(***************************************************************************)
ScanFileStep == script = "scan_events" /\ pc = "loop" /\ idx' = idx + 1
AddedEvents == SubSeq(events', Len(events) + 1, Len(events'))

\* C7: for a record, _extract_fields yields one field per declared parameter,
\* in order, named by the parameter's trailing identifier and typed by all
\* the text before it, also when the type has a comma inside angle brackets.
C7_FieldsPerParameter ==
    [][ScanFileStep =>
          \A k \in DOMAIN AddedEvents :
             AddedEvents[k].is_record =>
                /\ Len(AddedEvents[k].fields) = Len(NextFile.params)
                /\ \A i \in DOMAIN NextFile.params :
                      /\ AddedEvents[k].fields[i].name = NextFile.params[i].name
                      /\ AddedEvents[k].fields[i].type = NextFile.params[i].type]_vars

\* The namespace of a file as segments; none without a package statement.
Namespace(f) == f.package

\* The positions of the marker segments that have a predecessor.
MarkersWithPredecessor(ns) == {i \in DOMAIN ns : i > 1 /\ ns[i] \in {"domain", "event", "events"}}
\* The positions of the segments that are neither generic nor markers.
InformativeSegments(ns) ==
    {i \in DOMAIN ns : ns[i] \notin {"com", "org", "net", "domain", "event", "events"}}
First(S) == CHOOSE i \in S : \A j \in S : i <= j
Last(S) == CHOOSE i \in S : \A j \in S : j <= i
GenericLabels == {"Com", "Org", "Net", "Domain", "Event", "Events"}

\* C17: the bounded context of an event is the capitalized segment before
\* the first marker segment (domain, event, events) that has a predecessor,
\* otherwise the capitalized last segment that is not generic; it is never
\* itself a generic or marker segment.
C17_ContextBeforeMarker ==
    [][ScanFileStep =>
          \A k \in DOMAIN AddedEvents :
             LET ns == Namespace(NextFile)
                 label == AddedEvents[k].bounded_context
             IN /\ MarkersWithPredecessor(ns) # {} =>
                      label = Capitalize(ns[First(MarkersWithPredecessor(ns)) - 1])
                /\ (MarkersWithPredecessor(ns) = {} /\ InformativeSegments(ns) # {}) =>
                      label = Capitalize(ns[Last(InformativeSegments(ns))])
                /\ label \notin GenericLabels]_vars

\* C18: the bounded context of an event whose namespace has no informative
\* segment, the missing package statement included, is "Unknown"; a label is
\* never empty.
C18_UnknownSentinel ==
    [][ScanFileStep =>
          \A k \in DOMAIN AddedEvents :
             /\ InformativeSegments(Namespace(NextFile)) = {} =>
                   AddedEvents[k].bounded_context = "Unknown"
             /\ AddedEvents[k].bounded_context # ""]_vars

\* The position in body of the k-th private field declaration.
FieldPosition(body, k) ==
    SelectSeq([i \in 1..Len(body) |-> i], LAMBDA i : body[i].kind = "field")[k]

\* The annotations that stand directly before the declaration at position p.
RECURSIVE OwnAnnotations(_, _)
OwnAnnotations(body, p) ==
    IF p > 1 /\ body[p - 1].kind = "annotation"
    THEN OwnAnnotations(body, p - 1) \cup {body[p - 1].text}
    ELSE {}

\* The doc comment of the declaration at position p: the comment that stands
\* directly before it and its annotations; None when there is none.
OwnDoc(body, p) ==
    LET q == p - Cardinality(OwnAnnotations(body, p)) - 1
    IN IF q >= 1 /\ body[q].kind = "doc" THEN body[q].text ELSE None

\* C19: the doc comment of a field of an ordinary event class is absent or
\* the comment that stands before its own declaration, so absent when it has
\* none of its own; its annotations are among those that stand before its
\* own declaration.
C19_FieldDocScoped ==
    [][ScanFileStep =>
          \A k \in DOMAIN AddedEvents :
             ~AddedEvents[k].is_record =>
                \A i \in DOMAIN AddedEvents[k].fields :
                   LET field == AddedEvents[k].fields[i]
                       p == FieldPosition(NextFile.body, i)
                   IN /\ field.javadoc \in {None, OwnDoc(NextFile.body, p)}
                      /\ SeqRange(field.annotations) \subseteq OwnAnnotations(NextFile.body, p)]_vars

\* The position of the class declaration in the text of a class file.
DeclPosition(body) == CHOOSE i \in DOMAIN body : body[i].kind = "class"
\* The annotations before the declaration that lie wholly, or at least
\* partly, within the 500 characters before it.
AnnotationsInWindow(body) ==
    {i \in 1..(DeclPosition(body) - 1) :
        /\ body[i].kind = "annotation"
        /\ Offset(body, i) >= Offset(body, DeclPosition(body)) - 500}
AnnotationsTouchingWindow(body) ==
    {i \in 1..(DeclPosition(body) - 1) :
        /\ body[i].kind = "annotation"
        /\ Offset(body, i) + ItemLength(body[i]) > Offset(body, DeclPosition(body)) - 500}

\* C27: every class annotation of an event is the text of an annotation that
\* lies within the 500 characters before the declaration, and there are no
\* more of them than annotations that reach into that window: one that lies
\* entirely before it is not returned.
C27_AnnotationsWithinWindow ==
    [][(ScanFileStep /\ NextFile.body # <<>>) =>
          \A k \in DOMAIN AddedEvents :
             /\ \A a \in DOMAIN AddedEvents[k].annotations :
                   \E i \in AnnotationsInWindow(NextFile.body) :
                      NextFile.body[i].text = AddedEvents[k].annotations[a]
             /\ Len(AddedEvents[k].annotations)
                   <= Cardinality(AnnotationsTouchingWindow(NextFile.body))]_vars

\* C27 witness: an event was recorded with an annotation from the window
\* while another annotation of its file lies entirely before the window.
C27_Witness ==
    /\ script = "scan_events" /\ pc = "loop" /\ idx = 1 /\ Len(events) = 1
    /\ LastFile.body # <<>>
    /\ events[1].annotations # <<>>
    /\ \E i \in 1..(DeclPosition(LastFile.body) - 1) :
          /\ LastFile.body[i].kind = "annotation"
          /\ i \notin AnnotationsTouchingWindow(LastFile.body)

(***************************************************************************)
(* events.json written by scan_events.py and read by generate_event_docs.py*)
(***************************************************************************)
\* json.dump writes None as the token null, json.load reads it back as None;
\* strings, booleans and lists are written and read as themselves.
JsonNull == "null"
ToJson(v) == IF v = None THEN JsonNull ELSE v
FromJson(v) == IF v = JsonNull THEN None ELSE v

\* asdict(event) as written by json.dump: every field is a key of the object.
DumpEvent(ev) ==
    [name |-> ev.name, package |-> ev.package, bounded_context |-> ev.bounded_context,
     javadoc |-> ToJson(ev.javadoc),
     fields |-> [i \in DOMAIN ev.fields |->
                    [name |-> ev.fields[i].name, type |-> ev.fields[i].type,
                     javadoc |-> ToJson(ev.fields[i].javadoc),
                     annotations |-> ev.fields[i].annotations]],
     extends |-> ToJson(ev.extends), annotations |-> ev.annotations,
     is_record |-> ev.is_record]

\* The object json.load gives for a written event
LoadEvent(obj) ==
    [name |-> obj.name, package |-> obj.package, bounded_context |-> obj.bounded_context,
     javadoc |-> FromJson(obj.javadoc),
     fields |-> [i \in DOMAIN obj.fields |->
                    [name |-> obj.fields[i].name, type |-> obj.fields[i].type,
                     javadoc |-> FromJson(obj.fields[i].javadoc),
                     annotations |-> obj.fields[i].annotations]],
     extends |-> FromJson(obj.extends), annotations |-> obj.annotations,
     is_record |-> obj.is_record]

\* save_to_json: the events array of the file
DumpEvents(evs) == [i \in DOMAIN evs |-> DumpEvent(evs[i])]

\* EventDocGenerator.__init__: self.events_data['events'] as loaded
LoadEventsData(array) == [i \in DOMAIN array |-> LoadEvent(array[i])]

\* EventDocGenerator.__init__: self.events = {e['name']: e for e in ...}, the
\* events the generator works on; a later event replaces an earlier one of
\* the same name.
LoadEventIndex(array) ==
    LET data == LoadEventsData(array)
    IN [n \in {data[i].name : i \in DOMAIN data} |->
          data[CHOOSE i \in DOMAIN data :
                  /\ data[i].name = n
                  /\ \A j \in DOMAIN data : data[j].name = n => j <= i]]

ScanFinished == script = "scan_events" /\ pc = "done" /\ exit_code = 0

EntryPoints == {"analyze_project", "scan_events", "analyze_publishers", "analyze_listeners"}

InitMain == InitDFD \/ InitScan \/ InitPub \/ InitLis
NextMain == NextDFD \/ NextScan \/ NextPub \/ NextLis

\* A run of any one of the four extraction entry points.
SpecMain == InitMain /\ [][NextMain]_vars

\* C9: a run of an extraction entry point on a source root that does not
\* exist ends with a nonzero exit code and has written no graph.
C9_MissingRootFails ==
    (script \in EntryPoints /\ pc = "done" /\ ~root_exists) =>
        exit_code # 0 /\ output = <<>>

\* This step is one iteration of the file loop of the running entry point.
AnyFileStep == script \in EntryPoints /\ pc = "loop" /\ idx' = idx + 1

Readable(files) == SelectSeq(files, LAMBDA f : f.readable)

\* The document the running entry point writes for a list of files.
RunOutput(files) ==
    CASE script = "analyze_project" -> DfdRun(files)
      [] script = "scan_events" -> EvtJson(Scan(files, Len(files)))
      [] script = "analyze_publishers" -> PubJson(PubAnalyze(files, Len(files)))
      [] script = "analyze_listeners" -> LisJson(LisAnalyze(files, Len(files)))

\* C10: in every extraction pass a file whose read fails adds no entity and
\* no finding and the loop goes on to the next file; the finished run
\* succeeds and writes what the readable files alone produce.
C10_UnreadableSkipped ==
    /\ [][(AnyFileStep /\ ~NextFile.readable) =>
            /\ UNCHANGED <<dfdVars, pubVars, lisVars, scanVars>>
            /\ pc' = "loop" /\ exit_code' = Running]_vars
    /\ []((script \in EntryPoints /\ pc = "done" /\ exit_code = 0) =>
            output = <<RunOutput(Readable(java_files))>>)
    /\ []((script \in EntryPoints /\ pc = "done" /\ root_exists) => exit_code = 0)

\* C10 witness: a finished run whose first file could not be read and whose
\* second file was recorded.
C10_Witness ==
    /\ script = "analyze_project" /\ pc = "done" /\ exit_code = 0
    /\ Len(java_files) = 2 /\ ~java_files[1].readable /\ java_files[2].readable
    /\ Len(processes) = 1

\* The names the files of the model give rise to, in the order of string
\* comparison.
NamesInOrder ==
    <<"", "A", "API Client (A)", "API Client (B)", "B", "Invoiced", "OrderCancelledEvent",
      "OrderDto", "OrderHandler", "OrderPlacedEvent", "OrderService", "Unknown",
      "a", "b", "http://pay", "orders">>
NameRank(n) == CHOOSE i \in DOMAIN NamesInOrder : NamesInOrder[i] = n

IsSortedByName(names) ==
    \A i, j \in DOMAIN names : i < j => NameRank(names[i]) <= NameRank(names[j])

\* The names of the entities of each list of a written document, in the
\* order of the list.
EntityNameLists(doc) ==
    CASE script = "analyze_project" ->
            {[i \in DOMAIN doc.external_entities |-> doc.external_entities[i].name],
             [i \in DOMAIN doc.processes |-> doc.processes[i].name],
             [i \in DOMAIN doc.data_stores |-> doc.data_stores[i].name]}
      [] script = "scan_events" -> {[i \in DOMAIN doc.events |-> doc.events[i].name]}
      [] script = "analyze_publishers" ->
            {[i \in DOMAIN doc.publishers |-> doc.publishers[i].class_name]}
      [] script = "analyze_listeners" ->
            {[i \in DOMAIN doc.listeners |-> doc.listeners[i].class_name]}

\* C12: in the document every extraction entry point writes, each entity list
\* is sorted by entity name, whatever the order of java_files.
C12_SortedByName ==
    (script \in EntryPoints /\ pc = "done" /\ exit_code = 0) =>
        \A names \in EntityNameLists(output[1]) : IsSortedByName(names)

\* C20: in every extraction pass a file in which no declaration name is
\* found adds no entity and no finding, and no record of a run carries the
\* placeholder class name.
C20_NamelessFileDropped ==
    /\ [][(AnyFileStep /\ NextFile.class_name = None) =>
            UNCHANGED <<dfdVars, pubVars, lisVars, scanVars>>]_vars
    /\ [](\A k \in DOMAIN publishers : publishers[k].class_name # "Unknown")
    /\ [](\A k \in DOMAIN listeners : listeners[k].class_name # "Unknown")

(***************************************************************************)
(* The analyzer objects used as a library: analyze() / scan() called more  *)
(* than once on one object                                                 *)
(***************************************************************************)
AnalyzerClasses == {"JavaProjectAnalyzer", "EventScanner", "PublisherAnalyzer", "ListenerAnalyzer"}

\* The loop of JavaProjectAnalyzer.analyze() over the first n files, from the
\* collections the object holds when the call starts.
RECURSIVE AnalyzeFilesFrom(_, _, _, _, _)
AnalyzeFilesFrom(files, n, ents, procs, stores) ==
    IF n = 0 THEN <<ents, procs, stores>>
    ELSE LET r == AnalyzeFilesFrom(files, n - 1, ents, procs, stores)
         IN AnalyzeFileResult(files[n], r[1], r[2], r[3])

\* __init__ of each class: the object is built on an existing tree and its
\* collections are empty. idx counts the calls made on it, output holds the
\* value each call returned, as it was when the call returned.
InitReuse ==
    /\ script \in AnalyzerClasses
    /\ root_exists = TRUE
    /\ java_files \in (CASE script = "JavaProjectAnalyzer" -> SeqsUpTo(DfdCatalog, MaxFiles)
                         [] script = "EventScanner" -> EvtTrees
                         [] script = "PublisherAnalyzer" -> PubTrees
                         [] script = "ListenerAnalyzer" -> LisTrees)
    /\ pc = "constructed"
    /\ idx = 0
    /\ exit_code = Running
    /\ output = <<>>
    /\ external_entities = <<>>
    /\ processes = <<>>
    /\ data_stores = <<>>
    /\ data_flows = <<>>
    /\ publishers = <<>>
    /\ listeners = <<>>
    /\ events = <<>>
    /\ PipelineIdle
    /\ MermaidIdle
    /\ ExecutorIdle

\* The calls a caller makes on one object
MaxCalls == 2

\* JavaProjectAnalyzer.analyze(): the lists are appended to, never reset.
ReuseAnalyzeProject ==
    /\ script = "JavaProjectAnalyzer" /\ idx < MaxCalls
    /\ LET r == AnalyzeFilesFrom(java_files, Len(java_files),
                                 external_entities, processes, data_stores)
       IN /\ external_entities' = r[1]
          /\ processes' = r[2]
          /\ data_stores' = r[3]
          /\ data_flows' = data_flows \o InferDataFlows(r[2])
          /\ output' = Append(output, AnalyzeResult(r[1], r[2], r[3], data_flows'))
    /\ idx' = idx + 1
    /\ UNCHANGED <<script, root_exists, java_files, pc, exit_code, pubVars, lisVars, scanVars, pipeVars, mermaidVars, execVars>>

\* EventScanner.scan()
ReuseScan ==
    /\ script = "EventScanner" /\ idx < MaxCalls
    /\ events' = events \o Scan(java_files, Len(java_files))
    /\ output' = Append(output, events')
    /\ idx' = idx + 1
    /\ UNCHANGED <<script, root_exists, java_files, pc, exit_code, dfdVars, pubVars, lisVars, pipeVars, mermaidVars, execVars>>

\* PublisherAnalyzer.analyze()
ReuseAnalyzePublishers ==
    /\ script = "PublisherAnalyzer" /\ idx < MaxCalls
    /\ publishers' = publishers \o PubAnalyze(java_files, Len(java_files))
    /\ output' = Append(output, publishers')
    /\ idx' = idx + 1
    /\ UNCHANGED <<script, root_exists, java_files, pc, exit_code, dfdVars, lisVars, scanVars, pipeVars, mermaidVars, execVars>>

\* ListenerAnalyzer.analyze()
ReuseAnalyzeListeners ==
    /\ script = "ListenerAnalyzer" /\ idx < MaxCalls
    /\ listeners' = listeners \o LisAnalyze(java_files, Len(java_files))
    /\ output' = Append(output, listeners')
    /\ idx' = idx + 1
    /\ UNCHANGED <<script, root_exists, java_files, pc, exit_code, dfdVars, pubVars, scanVars, pipeVars, mermaidVars, execVars>>

NextReuse == ReuseAnalyzeProject \/ ReuseScan \/ ReuseAnalyzePublishers \/ ReuseAnalyzeListeners

SpecReuse == InitReuse /\ [][NextReuse]_vars

\* C21: a second call of analyze() or scan() on the same object over the same
\* tree returns what the first call returned; nothing of the first call is
\* carried over or duplicated.
C21_SecondCallSameGraph ==
    (script \in AnalyzerClasses /\ Len(output) = 2) => output[2] = output[1]

(***************************************************************************)
(* generate_all_docs.py: the pipeline                                      *)
(***************************************************************************)
\* The scripts the five steps run, in order
StageScripts == <<"scan_events", "analyze_publishers", "analyze_listeners",
                  "generate_event_docs", "generate_diagrams">>
\* What a child that exits 0 has written
StageArtifacts == <<"events.json", "publishers.json", "listeners.json", "docs", "diagrams">>

\* The exit codes a child process ends with: success, an uncaught exception,
\* a usage error.
ReturnCodes == {0, 1, 2}

\* subprocess.run(cmd): it raises when the child cannot be started, else it
\* gives the child's return code.
ChildOutcomes ==
    {[raised |-> FALSE, returncode |-> c] : c \in ReturnCodes}
    \cup {[raised |-> TRUE, returncode |-> Running]}

StageFails_C8mut(outcome) == outcome.raised \/ outcome.returncode = 1

\* Steps 1 to 4: "if result.returncode != 0: raise Exception(...)", and an
\* exception of subprocess.run itself.
StageFails(outcome) == outcome.raised \/ outcome.returncode # 0

Stage(k, outcome) == [name |-> StageScripts[k], raised |-> outcome.raised,
                      returncode |-> outcome.returncode]

InitPipe ==
    /\ script = "generate_all_docs"
    /\ root_exists \in BOOLEAN
    /\ java_files = <<>>
    /\ pc = "main"
    /\ idx = 0
    /\ exit_code = Running
    /\ output = <<>>
    /\ external_entities = <<>>
    /\ processes = <<>>
    /\ data_stores = <<>>
    /\ data_flows = <<>>
    /\ publishers = <<>>
    /\ listeners = <<>>
    /\ events = <<>>
    /\ stages = <<>>
    /\ diagram_script \in BOOLEAN
    /\ clean \in BOOLEAN
    /\ temp_dir = FALSE
    /\ run_result = Running
    /\ MermaidIdle
    /\ ExecutorIdle

\* main() up to pipeline.run(): the pipeline object is built, which creates
\* the temporary and the output directory.
PipeMain ==
    /\ script = "generate_all_docs" /\ pc = "main"
    /\ temp_dir' = TRUE
    /\ pc' = "step"
    /\ idx' = 1
    /\ UNCHANGED <<script, root_exists, java_files, exit_code, output, dfdVars, pubVars,
                   lisVars, scanVars, stages, diagram_script, clean, run_result, mermaidVars, execVars>>

\* _step1_scan_events .. _step4_generate_docs: the child is run; when it
\* fails the exception ends run() with 1, else run() goes on to the next step.
PipeStep ==
    /\ script = "generate_all_docs" /\ pc = "step" /\ idx \in 1..4
    /\ \E outcome \in ChildOutcomes :
         /\ stages' = Append(stages, Stage(idx, outcome))
         /\ IF StageFails(outcome)
            THEN /\ run_result' = 1
                 /\ pc' = "returned"
                 /\ idx' = idx
                 /\ output' = output
            ELSE /\ run_result' = run_result
                 /\ pc' = "step"
                 /\ idx' = idx + 1
                 /\ output' = Append(output, StageArtifacts[idx])
    /\ UNCHANGED <<script, root_exists, java_files, exit_code, dfdVars, pubVars, lisVars,
                   scanVars, diagram_script, clean, temp_dir, mermaidVars, execVars>>

\* _step5_generate_diagrams and the end of run(): without the script the
\* step is skipped; a nonzero return code is only warned about; run() then
\* returns 0. An exception of subprocess.run ends run() with 1.
PipeStep5 ==
    /\ script = "generate_all_docs" /\ pc = "step" /\ idx = 5
    /\ IF diagram_script
       THEN \E outcome \in ChildOutcomes :
              /\ stages' = Append(stages, Stage(5, outcome))
              /\ run_result' = IF outcome.raised THEN 1 ELSE 0
              /\ output' = IF ~outcome.raised /\ outcome.returncode = 0
                           THEN Append(output, StageArtifacts[5]) ELSE output
       ELSE /\ stages' = stages
            /\ run_result' = 0
            /\ output' = output
    /\ pc' = "returned"
    /\ UNCHANGED <<script, root_exists, java_files, idx, exit_code, dfdVars, pubVars, lisVars,
                   scanVars, diagram_script, clean, temp_dir, mermaidVars, execVars>>

\* The end of main(): clean_temp() when --clean was given, then
\* sys.exit(exit_code).
PipeExit ==
    /\ script = "generate_all_docs" /\ pc = "returned"
    /\ temp_dir' = (temp_dir /\ ~clean)
    /\ exit_code' = run_result
    /\ pc' = "done"
    /\ UNCHANGED <<script, root_exists, java_files, idx, output, dfdVars, pubVars, lisVars,
                   scanVars, stages, diagram_script, clean, run_result, mermaidVars, execVars>>

NextPipe == PipeMain \/ PipeStep \/ PipeStep5 \/ PipeExit

SpecPipe == InitPipe /\ [][NextPipe]_vars

(***************************************************************************)
(* generate_all_docs.py: properties                                        *)
(***************************************************************************)
PipeDone == script = "generate_all_docs" /\ pc = "done"
\* The child of stage i exited nonzero or could not be run.
StageFailed(i) == stages[i].raised \/ stages[i].returncode # 0

\* C8 as stated: a stage that exits nonzero is the last one started and the
\* run ends nonzero; the run ends with 0 only if no stage failed.
C8_AnyFailureAborts ==
    PipeDone =>
        /\ \A i \in DOMAIN stages : StageFailed(i) => (i = Len(stages) /\ exit_code # 0)
        /\ exit_code = 0 => \A i \in DOMAIN stages : ~StageFailed(i)

\* C8 as amended: a failure of one of the four stages before the diagram stage
\* is the last stage started and the run ends nonzero; a nonzero exit of the
\* diagram stage leaves the exit code 0; the run ends with 0 only if the four
\* stages before the diagram stage all ran and succeeded.
C8_FailureAbortsBeforeDiagrams ==
    PipeDone =>
        /\ \A i \in DOMAIN stages :
              (StageFailed(i) /\ stages[i].name # "generate_diagrams") =>
                  (i = Len(stages) /\ exit_code # 0)
        /\ \A i \in DOMAIN stages :
              (stages[i].name = "generate_diagrams" /\ ~stages[i].raised) => exit_code = 0
        /\ exit_code = 0 =>
              /\ Len(stages) >= 4
              /\ \A i \in 1..4 : stages[i].name = StageScripts[i] /\ ~StageFailed(i)

\* C8 witness: a finished run whose diagram stage exited nonzero after four
\* successful stages.
C8_Witness ==
    /\ PipeDone
    /\ Len(stages) = 5 /\ stages[5].returncode # 0 /\ ~stages[5].raised
    /\ exit_code = 0


(***************************************************************************)
(* generate_mermaid.py: the node ids of MermaidDFDGenerator                *)
(***************************************************************************)
\* The number of _get_node_id calls of a run
MaxNodeCalls == 4

\* The names generate() asks an id for: entity names, class names of
\* processes, names of data stores, the ends of the flows.
NodeNames == {"API Client (Orders)", "Orders", "OrderService", "order"}

\* f"node{self.counter}"
NodeId(n) == <<"node", n>>

\* __init__: no id is assigned and the counter is at 0.
InitMermaid ==
    /\ script = "generate_mermaid"
    /\ root_exists = TRUE
    /\ java_files = <<>>
    /\ pc = "generate"
    /\ idx = 0
    /\ exit_code = Running
    /\ output = <<>>
    /\ external_entities = <<>>
    /\ processes = <<>>
    /\ data_stores = <<>>
    /\ data_flows = <<>>
    /\ publishers = <<>>
    /\ listeners = <<>>
    /\ events = <<>>
    /\ PipelineIdle
    /\ node_ids = <<>>
    /\ counter = 0
    /\ ExecutorIdle

GetNodeId_C29mut(name) ==
    /\ script = "generate_mermaid" /\ pc = "generate"
    /\ Len(output) < MaxNodeCalls
    /\ counter' = counter + 1
    /\ node_ids' = [n \in DOMAIN node_ids \cup {name} |->
                      IF n = name THEN NodeId(counter + 1) ELSE node_ids[n]]
    /\ output' = Append(output, [name |-> name, id |-> node_ids'[name]])
    /\ UNCHANGED <<script, root_exists, java_files, pc, idx, exit_code, dfdVars, pubVars,
                   lisVars, scanVars, pipeVars, execVars>>

\* _get_node_id(name): a name not seen before gets the next id; the id of the
\* name is returned. The call and what it returned are appended to output.
GetNodeId(name) ==
    /\ script = "generate_mermaid" /\ pc = "generate"
    /\ Len(output) < MaxNodeCalls
    /\ IF name \notin DOMAIN node_ids
       THEN /\ counter' = counter + 1
            /\ node_ids' = [n \in DOMAIN node_ids \cup {name} |->
                              IF n = name THEN NodeId(counter + 1) ELSE node_ids[n]]
       ELSE /\ counter' = counter
            /\ node_ids' = node_ids
    /\ output' = Append(output, [name |-> name, id |-> node_ids'[name]])
    /\ UNCHANGED <<script, root_exists, java_files, pc, idx, exit_code, dfdVars, pubVars,
                   lisVars, scanVars, pipeVars, execVars>>

NextMermaid == \E name \in NodeNames : GetNodeId(name)

SpecMermaid == InitMermaid /\ [][NextMermaid]_vars

\* C29: after any sequence of _get_node_id calls the same name has always
\* been given the same id and distinct names distinct ids, in what the calls
\* returned and in node_ids; counter is the number of entries of node_ids;
\* and a call with a name that is already known changes neither node_ids nor
\* counter.
C29_StableInjectiveIds ==
    /\ [](script = "generate_mermaid" =>
            /\ \A i, j \in DOMAIN output :
                  (output[i].name = output[j].name) <=> (output[i].id = output[j].id)
            /\ \A i \in DOMAIN output :
                  /\ output[i].name \in DOMAIN node_ids
                  /\ node_ids[output[i].name] = output[i].id
            /\ \A n, m \in DOMAIN node_ids : node_ids[n] = node_ids[m] => n = m
            /\ counter = Cardinality(DOMAIN node_ids))
    /\ [][(script = "generate_mermaid" /\ Len(output') = Len(output) + 1
             /\ output'[Len(output')].name \in DOMAIN node_ids)
          => (node_ids' = node_ids /\ counter' = counter)]_vars

\* C29 witness: a name was asked for twice with another name in between, and
\* two names have been given ids.
C29_Witness ==
    /\ script = "generate_mermaid"
    /\ Len(output) >= 3
    /\ output[1].name = output[3].name
    /\ output[1].name # output[2].name
    /\ counter = 2


(***************************************************************************)
(* executor.py: RequirementExecutor.run                                    *)
(***************************************************************************)
\* The order of the "if ... in stages" tests of run
StageOrder == <<"analyze", "plan", "verify", "report", "archive">>

StageNames == {StageOrder[k] : k \in DOMAIN StageOrder}

\* The files a stage writes, in the order it writes them
StageFiles(stage) ==
    CASE stage = "analyze" -> <<"task/00_requirement_summary.md">>
      [] stage = "plan" -> <<"plan/00_task_manifest.md">>
      [] stage = "verify" -> <<"task/99_verification_report.md">>
      [] stage = "report" -> <<"report/final_report.md", "report/execution_summary.md">>
      [] stage = "archive" -> <<>>

\* generate_archive is "return True"; the other stages open and write files.
CanRaise(stage) == stage # "archive"

\* "x in stages"
InStages(stage) == \E k \in DOMAIN requested : requested[k] = stage

\* The lists of distinct stage names: what a caller may pass to run.
StageLists ==
    {l \in SeqsUpTo(StageNames, Len(StageOrder)) :
        \A a, b \in DOMAIN l : l[a] = l[b] => a = b}

\* main(): the five stages for --stage all, else the one stage named.
MainStageLists == {StageOrder} \cup {<<stage>> : stage \in StageNames}

\* After RequirementExecutor(args.dir), at the call of run(stages).
InitExec ==
    /\ script = "executor"
    /\ root_exists = TRUE
    /\ java_files = <<>>
    /\ pc = "run"
    /\ idx = 1
    /\ exit_code = Running
    /\ output = <<>>
    /\ external_entities = <<>>
    /\ processes = <<>>
    /\ data_stores = <<>>
    /\ data_flows = <<>>
    /\ publishers = <<>>
    /\ listeners = <<>>
    /\ events = <<>>
    /\ PipelineIdle
    /\ MermaidIdle
    /\ requested \in StageLists
    /\ requirement_files \in BOOLEAN
    /\ executed = <<>>
    /\ written = {}
    /\ raised = None
    /\ success = FALSE

\* The first k files of a stage
FilesWritten(stage, k) == {StageFiles(stage)[n] : n \in 1..k}

\* A test "if '<stage>' in stages" that is false: run goes on to the next test.
ExecSkip ==
    /\ script = "executor" /\ pc = "run" /\ idx \in DOMAIN StageOrder
    /\ ~InStages(StageOrder[idx])
    /\ idx' = idx + 1
    /\ UNCHANGED <<script, root_exists, java_files, pc, exit_code, output, dfdVars, pubVars,
                   lisVars, scanVars, pipeVars, mermaidVars, execVars>>

\* The analyze stage: check_requirements_exist, whose False makes run return
\* False; then read_requirements, which catches the error of a file it cannot
\* read and goes on; then create_requirement_summary. An exception that
\* leaves one of the three reaches the handler of run.
ExecAnalyze ==
    /\ script = "executor" /\ pc = "run" /\ idx = 1
    /\ InStages("analyze")
    /\ executed' = Append(executed, "analyze")
    /\ \/ /\ ~requirement_files
          /\ pc' = "returned" /\ success' = FALSE
          /\ UNCHANGED <<idx, written, raised>>
       \/ /\ requirement_files
          /\ \E k \in 0..Len(StageFiles("analyze")) :
                /\ written' = written \cup FilesWritten("analyze", k)
                /\ pc' = "returned" /\ success' = FALSE /\ raised' = "analyze"
                /\ idx' = idx
       \/ /\ requirement_files
          /\ written' = written \cup FilesWritten("analyze", Len(StageFiles("analyze")))
          /\ idx' = idx + 1
          /\ UNCHANGED <<pc, raised, success>>
    /\ UNCHANGED <<script, root_exists, java_files, exit_code, output, dfdVars, pubVars,
                   lisVars, scanVars, pipeVars, mermaidVars, requested, requirement_files>>

ExecStage_C30mut ==
    /\ script = "executor" /\ pc = "run" /\ idx \in 2..Len(StageOrder)
    /\ InStages(StageOrder[idx])
    /\ executed' = Append(executed, StageOrder[idx])
    /\ \/ /\ CanRaise(StageOrder[idx])
          /\ \E k \in 0..Len(StageFiles(StageOrder[idx])) :
                written' = written \cup FilesWritten(StageOrder[idx], k)
          /\ raised' = StageOrder[idx]
          /\ idx' = idx + 1
          /\ UNCHANGED <<pc, success>>
       \/ /\ written' = written \cup FilesWritten(StageOrder[idx], Len(StageFiles(StageOrder[idx])))
          /\ idx' = idx + 1
          /\ UNCHANGED <<pc, raised, success>>
    /\ UNCHANGED <<script, root_exists, java_files, exit_code, output, dfdVars, pubVars,
                   lisVars, scanVars, pipeVars, mermaidVars, requested, requirement_files>>

\* The stages plan, verify, report, archive: the stage method runs; an
\* exception in it, after any number of its files, is caught by the handler
\* of run, which returns False.
ExecStage ==
    /\ script = "executor" /\ pc = "run" /\ idx \in 2..Len(StageOrder)
    /\ InStages(StageOrder[idx])
    /\ executed' = Append(executed, StageOrder[idx])
    /\ \/ /\ CanRaise(StageOrder[idx])
          /\ \E k \in 0..Len(StageFiles(StageOrder[idx])) :
                written' = written \cup FilesWritten(StageOrder[idx], k)
          /\ pc' = "returned" /\ success' = FALSE /\ raised' = StageOrder[idx]
          /\ idx' = idx
       \/ /\ written' = written \cup FilesWritten(StageOrder[idx], Len(StageFiles(StageOrder[idx])))
          /\ idx' = idx + 1
          /\ UNCHANGED <<pc, raised, success>>
    /\ UNCHANGED <<script, root_exists, java_files, exit_code, output, dfdVars, pubVars,
                   lisVars, scanVars, pipeVars, mermaidVars, requested, requirement_files>>

\* The end of the try block: "return True".
ExecFinish ==
    /\ script = "executor" /\ pc = "run" /\ idx = Len(StageOrder) + 1
    /\ pc' = "returned"
    /\ success' = TRUE
    /\ UNCHANGED <<script, root_exists, java_files, idx, exit_code, output, dfdVars, pubVars,
                   lisVars, scanVars, pipeVars, mermaidVars, requested, requirement_files,
                   executed, written, raised>>

\* main(): sys.exit(0 if success else 1), when run was called by main.
ExecExit ==
    /\ script = "executor" /\ pc = "returned"
    /\ requested \in MainStageLists
    /\ exit_code' = IF success THEN 0 ELSE 1
    /\ pc' = "done"
    /\ UNCHANGED <<script, root_exists, java_files, idx, output, dfdVars, pubVars, lisVars,
                   scanVars, pipeVars, mermaidVars, execVars>>

NextExec == ExecSkip \/ ExecAnalyze \/ ExecStage \/ ExecFinish \/ ExecExit

SpecExec == InitExec /\ [][NextExec]_vars

\* The position of a stage in the fixed order.
StageRank(stage) == CHOOSE k \in 1..5 : <<"analyze", "plan", "verify", "report", "archive">>[k] = stage

ExecReturned == script = "executor" /\ pc \in {"returned", "done"}

\* C30: the stages run entered are requested ones, in the order analyze,
\* plan, verify, report, archive whatever the order of the argument, and all
\* of the requested ones when run returns True; when analyze is requested and
\* there is no requirement file, run returns False with no later stage
\* entered and no file written; an exception of a stage makes run return
\* False with that stage the last one entered.
C30_FixedOrderAndAbort ==
    script = "executor" =>
       /\ \A i, j \in DOMAIN executed :
             i < j => StageRank(executed[i]) < StageRank(executed[j])
       /\ \A i \in DOMAIN executed : \E k \in DOMAIN requested : requested[k] = executed[i]
       /\ (ExecReturned /\ success) =>
             \A k \in DOMAIN requested : \E i \in DOMAIN executed : executed[i] = requested[k]
       /\ (ExecReturned /\ ~requirement_files
              /\ \E k \in DOMAIN requested : requested[k] = "analyze") =>
             (~success /\ executed = <<"analyze">> /\ written = {})
       /\ raised # None =>
             (ExecReturned /\ ~success /\ executed # <<>>
                /\ executed[Len(executed)] = raised)

\* C30 witness: the argument named report before verify before plan; plan
\* ran first, then verify, whose exception ended the run with False before
\* report.
C30_Witness ==
    /\ ExecReturned
    /\ requested = <<"report", "verify", "plan">>
    /\ executed = <<"plan", "verify">>
    /\ raised = "verify"
    /\ ~success

====
